---- MODULE Spec2Model ----
(***************************************************************************)
(* Roadmap of hpp-core: nodes, directed edges, connected components with   *)
(* their reachability sets, init/goal bookkeeping and nearest-neighbour    *)
(* queries (roadmap.cc).                                                   *)
(***************************************************************************)
EXTENDS Integers, Sequences, FiniteSets, TLC

\* ------------------------------------------------------------------ bounds
MaxNodes == 3
MaxEdges == 2
MaxGoals == 1
\* Edges added to the four fresh nodes of the scenarios.
MaxScenarioEdges == 4
MaxPathEdges == 3

\* One-dimensional configurations and the path handles given to the roadmap.
Configs == 0..(MaxNodes - 1)
Paths == {1}

\* The configurations of the nodes A, B, C, D of the end-to-end scenarios.
ScenarioConfigs == <<0, 1, 2, 3>>

\* Null pointer (0x0) and std::numeric_limits<value_type>::infinity ().
NoNode == 0
Infinity == 1000

VARIABLES nodes_, edges_, connectedComponents_, components, initNode_,
          goalNodes_, kdTree_, last, kinodynamic, planner

vars == <<nodes_, edges_, connectedComponents_, components, initNode_,
          goalNodes_, kdTree_, last, kinodynamic, planner>>

\* Identifiers of ConnectedComponent objects: the Node constructor allocates
\* one per node, so the creating node's index names the component.
CCIds ==
  1..(IF MaxNodes + 1 > Len(ScenarioConfigs) THEN MaxNodes + 1 ELSE Len(ScenarioConfigs))

\* A ConnectedComponent object without nodes or links.
EmptyCC == [nodes |-> {}, reachableTo_ |-> {}, reachableFrom_ |-> {}]

\* The roadmap object as one value, so that operations compose.
Roadmap ==
  [nodes_ |-> nodes_, edges_ |-> edges_,
   connectedComponents_ |-> connectedComponents_, components |-> components,
   initNode_ |-> initNode_, goalNodes_ |-> goalNodes_, kdTree_ |-> kdTree_]

\* Roadmap::Roadmap: everything empty, no init node.
EmptyRoadmap ==
  [nodes_ |-> <<>>, edges_ |-> <<>>, connectedComponents_ |-> {},
   components |-> [c \in CCIds |-> EmptyCC], initNode_ |-> NoNode,
   goalNodes_ |-> <<>>, kdTree_ |-> {}]

\* ------------------------------------------------------------- collaborators
\* Distance metric: symmetric, non-negative, zero iff the configurations are equal.
Distance(a, b) == IF a >= b THEN a - b ELSE b - a

\* Path::reverse.
Reverse(p) == 0 - p

\* All iteration orders of a set of pointers (std::set orders by address).
RECURSIVE Orders(_)
Orders(S) ==
  IF S = {} THEN {<<>>}
  ELSE UNION {{<<x>> \o s : s \in Orders(S \ {x})} : x \in S}

Min(S) == CHOOSE x \in S : \A y \in S : x <= y

\* KdTree::search: nearest node of the tree whose component is cc, ties
\* broken by insertion order; a null node at infinite distance when there is none.
KdSearch(r, q, cc) ==
  LET cand == {n \in r.kdTree_ : r.nodes_[n].connectedComponent = cc}
  IN IF cand = {} THEN [node |-> NoNode, dist |-> Infinity]
     ELSE LET d == Min({Distance(r.nodes_[n].configuration, q) : n \in cand})
              best == Min({n \in cand : Distance(r.nodes_[n].configuration, q) = d})
          IN [node |-> best, dist |-> d]

\* ------------------------------------------------------- ConnectedComponent
\* ConnectedComponent::canReach (cc): membership in the reachability set,
\* reflexive reachability being implicit.
canReach(r, c1, c2) == c2 = c1 \/ c2 \in r.components[c1].reachableTo_

\* ConnectedComponent::canReach (cc, cc2Tocc1): the components c1 can reach
\* and that can reach c2.
canReachCollect(r, c1, c2) ==
  {c \in {c1} \cup r.components[c1].reachableTo_ : canReach(r, c, c2)}

\* ConnectedComponent::addNode.
ccAddNode(r, c, n) ==
  [r EXCEPT !.components[c].nodes = @ \cup {n}]

\* ConnectedComponent::merge (other): the nodes of other move into c, c takes
\* the union of the links minus c and other, every other component refers to
\* c where it referred to other.
ccMerge(r, c, other) ==
  LET old == r.components
      moved == old[other].nodes
      Rewrite(S) == IF other \in S THEN (S \ {other}) \cup {c} ELSE S
  IN [r EXCEPT
        !.nodes_ = [n \in 1..Len(r.nodes_) |->
                      IF n \in moved
                      THEN [r.nodes_[n] EXCEPT !.connectedComponent = c]
                      ELSE r.nodes_[n]],
        !.components = [x \in CCIds |->
            IF x = c
            THEN [nodes |-> old[c].nodes \cup moved,
                  reachableTo_ |->
                    (old[c].reachableTo_ \cup old[other].reachableTo_) \ {c, other},
                  reachableFrom_ |->
                    (old[c].reachableFrom_ \cup old[other].reachableFrom_) \ {c, other}]
            ELSE IF x = other THEN EmptyCC
            ELSE [old[x] EXCEPT !.reachableTo_ = Rewrite(@),
                                !.reachableFrom_ = Rewrite(@)]]]

\* ------------------------------------------------------------------ Roadmap
\* Roadmap::merge without the call of cc1->merge: the components are erased
\* from the set and nothing else is updated.
merge_eraseOnly(r, cc1, ccs) ==
  [r EXCEPT !.connectedComponents_ = @ \ ({ccs[i] : i \in DOMAIN ccs} \ {cc1})]

\* Roadmap::merge with the erase outside the test of line 232: cc1 is erased
\* from the set of components as well.
RECURSIVE merge_erasesAll(_, _, _)
merge_erasesAll(r, cc1, ccs) ==
  IF ccs = <<>> THEN r
  ELSE LET c == Head(ccs)
           r1 == IF c # cc1 THEN ccMerge(r, cc1, c) ELSE r
           r2 == [r1 EXCEPT !.connectedComponents_ = @ \ {c}]
       IN merge_erasesAll(r2, cc1, Tail(ccs))

\* Roadmap::merge: every component of ccs other than cc1 is merged into cc1
\* and erased from the set of components.
RECURSIVE merge(_, _, _)
merge(r, cc1, ccs) ==
  IF ccs = <<>> THEN r
  ELSE LET c == Head(ccs)
           r1 == IF c # cc1
                 THEN [ccMerge(r, cc1, c) EXCEPT !.connectedComponents_ = @ \ {c}]
                 ELSE r
       IN merge(r1, cc1, Tail(ccs))

\* The orders in which Roadmap::merge may visit the set collected by connect.
MergeOrders(r, cc1, cc2) == Orders(canReachCollect(r, cc2, cc1))

\* Roadmap::connect without the insertion into cc2->reachableFrom_.
connect_noReachableFrom(r, cc1, cc2, ccs) ==
  IF canReach(r, cc1, cc2) THEN r
  ELSE IF canReach(r, cc2, cc1) THEN merge(r, cc1, ccs)
  ELSE [r EXCEPT !.components[cc1].reachableTo_ = @ \cup {cc2}]

\* Roadmap::connect with a reachability test that is not reflexive: an edge
\* inside one component inserts the links.
connect_notReflexive(r, cc1, cc2, ccs) ==
  IF cc1 # cc2 /\ canReach(r, cc1, cc2) THEN r
  ELSE IF cc1 # cc2 /\ canReach(r, cc2, cc1) THEN merge(r, cc1, ccs)
  ELSE [r EXCEPT !.components[cc1].reachableTo_ = @ \cup {cc2},
                 !.components[cc2].reachableFrom_ = @ \cup {cc1}]

\* Roadmap::connect.
connect(r, cc1, cc2, ccs) ==
  IF canReach(r, cc1, cc2) THEN r
  ELSE IF canReach(r, cc2, cc1) THEN merge(r, cc1, ccs)
  ELSE [r EXCEPT !.components[cc1].reachableTo_ = @ \cup {cc2},
                 !.components[cc2].reachableFrom_ = @ \cup {cc1}]

\* Edge::Edge with Node::addOutEdge and Node::addInEdge, then push_back.
attachEdge(r, from, to, path) ==
  LET e == Len(r.edges_) + 1
      r1 == [r EXCEPT !.nodes_[from].outEdges = Append(@, e)]
      r2 == [r1 EXCEPT !.nodes_[to].inEdges = Append(@, e)]
  IN [r2 EXCEPT !.edges_ = Append(@, [from |-> from, to |-> to, path |-> path])]

\* Roadmap::addEdge.
addEdge(r, n1, n2, path, ccs) ==
  LET r1 == attachEdge(r, n1, n2, path)
  IN connect(r1, r1.nodes_[n1].connectedComponent,
             r1.nodes_[n2].connectedComponent, ccs)

\* Roadmap::addEdges.
addEdges(r, from, to, path) ==
  attachEdge(attachEdge(r, from, to, path), to, from, Reverse(path))

\* The loop of Roadmap::nearestNode without the comparison of distances: the
\* result of the last component visited is kept.
nearestLoop_noComparison(r, q, order, closest, minDistance) ==
  IF order = <<>> THEN [node |-> closest, dist |-> minDistance]
  ELSE KdSearch(r, q, order[Len(order)])

\* Roadmap::nearestNode (configuration, minDistance): the loop over the
\* components in iteration order.
RECURSIVE nearestLoop(_, _, _, _, _)
nearestLoop(r, q, order, closest, minDistance) ==
  IF order = <<>> THEN [node |-> closest, dist |-> minDistance]
  ELSE LET f == KdSearch(r, q, Head(order))
       IN IF f.dist < minDistance
          THEN nearestLoop(r, q, Tail(order), f.node, f.dist)
          ELSE nearestLoop(r, q, Tail(order), closest, minDistance)

nearestNode(r, q, order) == nearestLoop(r, q, order, NoNode, Infinity)

\* Roadmap::nearestNode (configuration, connectedComponent, minDistance).
nearestNodeIn(r, q, cc) == KdSearch(r, q, cc)

\* Node::Node followed by nodes_.push_back. newComponent records which
\* constructor built the node: Node (configuration) allocates a component of
\* its own, Node (configuration, connectedComponent) does not.
pushNode(r, q, cc) ==
  [r EXCEPT !.nodes_ = Append(@, [configuration |-> q, connectedComponent |-> cc,
                                   outEdges |-> <<>>, inEdges |-> <<>>,
                                   newComponent |-> (cc = Len(r.nodes_) + 1)])]

\* Roadmap::addConnectedComponent.
addConnectedComponent(r, n) ==
  LET cc == r.nodes_[n].connectedComponent
      r1 == [r EXCEPT !.connectedComponents_ = @ \cup {cc}]
      r2 == ccAddNode(r1, cc, n)
  IN [r2 EXCEPT !.kdTree_ = @ \cup {n}]

\* Roadmap::addNode (configuration) without the lookup of an equal
\* configuration: a node is created on every call.
addNode_noLookup(r, q, order) ==
  LET n == Len(r.nodes_) + 1
  IN [rm |-> addConnectedComponent(pushNode(r, q, n), n), ret |-> n]

\* Roadmap::addNode (configuration): the roadmap after the call and the node returned.
addNode(r, q, order) ==
  LET nearest == nearestNode(r, q, order).node
      found == /\ Len(r.nodes_) # 0
               /\ r.nodes_[nearest].configuration = q
      n == Len(r.nodes_) + 1
  IN IF found THEN [rm |-> r, ret |-> nearest]
     ELSE [rm |-> addConnectedComponent(pushNode(r, q, n), n), ret |-> n]

\* Roadmap::addNode (configuration, connectedComponent) without the
\* registration of the new node in the component.
addNodeIn_unregistered(r, q, cc) ==
  LET nearest == nearestNodeIn(r, q, cc).node
      found == /\ Len(r.nodes_) # 0
               /\ r.nodes_[nearest].configuration = q
      n == Len(r.nodes_) + 1
      r1 == pushNode(r, q, cc)
  IN IF found THEN [rm |-> r, ret |-> nearest]
     ELSE [rm |-> [r1 EXCEPT !.kdTree_ = @ \cup {n}], ret |-> n]

\* Roadmap::addNode (configuration, connectedComponent) building the node
\* with Node (configuration), which allocates a component of its own.
addNodeIn_newComponent(r, q, cc) ==
  LET nearest == nearestNodeIn(r, q, cc).node
      found == /\ Len(r.nodes_) # 0
               /\ r.nodes_[nearest].configuration = q
      n == Len(r.nodes_) + 1
  IN IF found THEN [rm |-> r, ret |-> nearest]
     ELSE [rm |-> addConnectedComponent(pushNode(r, q, n), n), ret |-> n]

\* Roadmap::addNode (configuration, connectedComponent).
addNodeIn(r, q, cc) ==
  LET nearest == nearestNodeIn(r, q, cc).node
      found == /\ Len(r.nodes_) # 0
               /\ r.nodes_[nearest].configuration = q
      n == Len(r.nodes_) + 1
      r1 == ccAddNode(pushNode(r, q, cc), cc, n)
  IN IF found THEN [rm |-> r, ret |-> nearest]
     ELSE [rm |-> [r1 EXCEPT !.kdTree_ = @ \cup {n}], ret |-> n]

\* Roadmap::addNodeAndEdges.
addNodeAndEdges(r, from, q, path) ==
  LET a == addNodeIn(r, q, r.nodes_[from].connectedComponent)
  IN [rm |-> addEdges(a.rm, from, a.ret, path), ret |-> a.ret]

\* Roadmap::addGoalNode.
addGoalNode(r, q, order) ==
  LET a == addNode(r, q, order)
  IN [a.rm EXCEPT !.goalNodes_ = Append(@, a.ret)]

\* Roadmap::initNode (node): bookkeeping of the init node.
setInitNode(r, n) == [r EXCEPT !.initNode_ = n]

\* Roadmap::clear without goalNodes_.clear ().
clear_keepsGoals(r) ==
  [r EXCEPT !.connectedComponents_ = {},
            !.components = [c \in CCIds |-> EmptyCC],
            !.nodes_ = <<>>,
            !.edges_ = <<>>,
            !.initNode_ = NoNode,
            !.kdTree_ = {}]

\* Roadmap::clear: the component set is emptied, the nodes and the edges are
\* deleted (and with the last references the components they point to), the
\* lists, the init node and the k-d tree are reset.
clear(r) ==
  [r EXCEPT !.connectedComponents_ = {},
            !.components = [c \in CCIds |-> EmptyCC],
            !.nodes_ = <<>>,
            !.edges_ = <<>>,
            !.goalNodes_ = <<>>,
            !.initNode_ = NoNode,
            !.kdTree_ = {}]

\* Roadmap::pathExists.
pathExists(r) ==
  LET ccInit == r.nodes_[r.initNode_].connectedComponent
  IN \E i \in 1..Len(r.goalNodes_) :
       canReach(r, ccInit, r.nodes_[r.goalNodes_[i]].connectedComponent)

\* ------------------------------------------------------------------- double
\* Values of type double as exact fractions <<n, d>> in lowest terms with
\* d >= 0; d = 0 stands for the non-finite values: <<1, 0>> is +infinity,
\* <<-1, 0>> is -infinity and <<0, 0>> is NaN. Rounding and the sign of zero
\* are not represented.
Abs(i) == IF i < 0 THEN 0 - i ELSE i

Sign(i) == IF i > 0 THEN 1 ELSE IF i < 0 THEN 0 - 1 ELSE 0

RECURSIVE GCD(_, _)
GCD(a, b) == IF b = 0 THEN a ELSE GCD(b, a % b)

Double(n, d) ==
  IF d = 0 THEN <<Sign(n), 0>>
  ELSE LET g == GCD(Abs(n), Abs(d))
       IN <<(Sign(d) * n) \div g, Abs(d) \div g>>

NaN == <<0, 0>>

IsNaN(x) == x = NaN

IsFinite(x) == x[2] # 0

\* operator+ and operator-: infinities of opposite signs give NaN.
Plus(x, y) ==
  IF x[2] = 0 /\ y[2] = 0 THEN (IF x = y THEN x ELSE NaN)
  ELSE Double(x[1] * y[2] + y[1] * x[2], x[2] * y[2])

Neg(x) == <<0 - x[1], x[2]>>

Minus(x, y) == Plus(x, Neg(y))

\* operator*: 0 * infinity is NaN.
Times(x, y) == Double(x[1] * y[1], x[2] * y[2])

\* operator/: x / 0 is an infinity, or NaN when x is 0 or NaN; x / infinity is 0.
Over(x, y) ==
  IF y[1] < 0 THEN Double(0 - x[1] * y[2], x[2] * (0 - y[1]))
  ELSE Double(x[1] * y[2], x[2] * y[1])

\* operator<: false when either side is NaN.
Less(x, y) ==
  IF IsNaN(x) \/ IsNaN(y) THEN FALSE
  ELSE IF x[2] = 0 \/ y[2] = 0
       THEN (x[2] = 0 /\ x[1] < 0 /\ y # x) \/ (y[2] = 0 /\ y[1] > 0 /\ y # x)
       ELSE x[1] * y[2] < y[1] * x[2]

LessEq(x, y) == Less(x, y) \/ (x = y /\ ~IsNaN(x))

fabs(x) == <<Abs(x[1]), x[2]>>

\* std::max (a, b): (a < b) ? b : a.
max(a, b) == IF Less(a, b) THEN b ELSE a

\* The least k of lo..hi with k * k >= n, by bisection.
RECURSIVE RootWithin(_, _, _)
RootWithin(n, lo, hi) ==
  IF lo >= hi THEN lo
  ELSE LET mid == (lo + hi) \div 2
       IN IF mid * mid >= n THEN RootWithin(n, lo, mid)
          ELSE RootWithin(n, mid + 1, hi)

\* The least k with k * k >= n, for n below 2^30.
Root(n) == RootWithin(n, 0, IF n < 32768 THEN n ELSE 32768)

IsSquare(n) == Root(n) * Root(n) = n

\* sqrt has an exact value here: not the square root of a finite positive
\* fraction whose root is irrational.
SqrtExact(x) ==
  IsFinite(x) /\ x[1] > 0 => (IsSquare(x[1]) /\ IsSquare(x[2]))

\* sqrt: NaN for a negative argument.
sqrt(x) ==
  IF IsNaN(x) \/ x[1] < 0 THEN NaN
  ELSE IF x[2] = 0 THEN x
  ELSE <<Root(x[1]), Root(x[2])>>

Num(i) == <<i, 1>>

\* sgn (val): the sign of val as an int; atZero is its value for val = 0.
sgn(val, atZero) ==
  IF Less(Num(0), val) THEN 1 ELSE IF Less(val, Num(0)) THEN 0 - 1 ELSE atZero

\* -------------------------------------------------------------- Kinodynamic
\* Kinodynamic::Kinodynamic: the bounds set by the constructor.
KinodynamicBounds == [aMax_ |-> <<1, 2>>, vMax_ |-> <<1, 1>>]

\* The discriminant without the distance to cover.
minTimeDelta_noDistance(a1, a2, p1, p2, v1, v2) ==
  Minus(Times(Num(4), Times(v1, v1)),
        Times(Times(Num(4), a1),
              Over(Minus(Times(v2, v2), Times(v1, v1)), Times(Num(2), a2))))

\* The discriminant of the quadratic of computeMinTime.
minTimeDelta(a1, a2, p1, p2, v1, v2) ==
  Minus(Times(Num(4), Times(v1, v1)),
        Times(Times(Num(4), a1),
              Minus(Over(Minus(Times(v2, v2), Times(v1, v1)), Times(Num(2), a2)),
                    Minus(p2, p1))))

\* The cruise time that forgets the distance covered while accelerating.
cruiseTime_noRamps(vLim, a1, p1, p2, v1, v2) == Over(Minus(p2, p1), vLim)

\* The time at the velocity limit of a schedule with three segments.
cruiseTime(vLim, a1, p1, p2, v1, v2) ==
  Plus(Over(Minus(Plus(Times(v1, v1), Times(v2, v2)),
                  Times(Num(2), Times(vLim, vLim))),
            Times(Times(Num(2), vLim), a1)),
       Over(Minus(p2, p1), vLim))

\* Kinodynamic::computeMinTime from line 80 on, for the values computed
\* before it: the choice between two and three segments and the times.
minTimeSegments(p1, p2, v1, v2, sigma, a1, a2, vLim, minT1, delta, x) ==
  LET fits == Less(minT1, x)
      t1a == IF fits THEN x ELSE minT1
      twoSegment == fits /\ ~Less(vLim, Plus(v1, Times(t1a, a1)))
      t1 == IF twoSegment THEN t1a ELSE Over(Minus(vLim, v1), a1)
      tv == IF twoSegment THEN Num(0) ELSE cruiseTime(vLim, a1, p1, p2, v1, v2)
      t2 == IF twoSegment THEN Plus(Over(Minus(v2, v1), a2), t1a)
            ELSE Over(Minus(v2, vLim), a2)
  IN [T |-> Plus(Plus(t1, tv), t2), sigma |-> sigma, a1 |-> a1, a2 |-> a2,
      t1 |-> t1, tv |-> tv, t2 |-> t2, twoSegment |-> twoSegment,
      delta |-> delta, error |-> FALSE]

\* Kinodynamic::computeMinTime from line 66 on, for the sign chosen at line
\* 65: the accelerations, the velocity limit and the roots of the quadratic.
minTimeSigned(k, p1, p2, v1, v2, sigma) ==
  LET a1 == Times(Num(sigma), k.aMax_)
      a2 == Neg(a1)
      vLim == Times(Num(sigma), k.vMax_)
      minT1 == max(Num(0), Over(Minus(v2, v1), a2))
      delta == minTimeDelta(a1, a2, p1, p2, v1, v2)
      x1 == Over(Plus(Times(Num(0 - 2), v1), sqrt(delta)), Times(Num(2), a1))
      x2 == Over(Minus(Times(Num(0 - 2), v1), sqrt(delta)), Times(Num(2), a1))
  IN minTimeSegments(p1, p2, v1, v2, sigma, a1, a2, vLim, minT1, delta,
                     max(x1, x2))

\* Kinodynamic::computeMinTime: the value returned (T) and the out-parameters.
\* error is what the caller is told of a failure: the function returns
\* normally on every path.
computeMinTime(k, p1, p2, v1, v2, atZero) ==
  LET deltaPacc == Times(Times(<<1, 2>>, Minus(v1, v2)),
                         Over(fabs(Minus(v2, v1)), k.aMax_))
  IN minTimeSigned(k, p1, p2, v1, v2,
                   sgn(Minus(Minus(p2, p1), deltaPacc), atZero))

\* The discriminant of the quadratic of fixedTimeTrajectory.
fixedTimeDelta(T, p1, p2, v1, v2) ==
  LET v12 == Plus(v1, v2)
      v2_1 == Minus(v2, v1)
      p2_1 == Minus(p2, p1)
  IN Plus(Minus(Times(Times(Num(4), Times(T, T)),
                      Times(Times(v12, v12), Times(v2_1, v2_1))),
                Times(Times(Times(Num(16), T), v12), p2_1)),
          Times(Times(Num(16), p2_1), p2_1))

\* Kinodynamic::fixedTimeTrajectory, lines 114-123: the root of the
\* quadratic of larger magnitude, stored in *a1.
fixedTimeAcceleration(T, p1, p2, v1, v2, delta) ==
  LET v12 == Plus(v1, v2)
      p2_1 == Minus(p2, p1)
      b == Minus(Times(Times(Num(2), T), v12), Times(Num(4), p2_1))
      a_2 == Times(Num(2), Times(T, T))
      x1 == Over(Minus(Neg(b), sqrt(delta)), a_2)
      x2 == Over(Plus(Neg(b), sqrt(delta)), a_2)
  IN IF Less(fabs(x2), fabs(x1)) THEN x1 ELSE x2

\* Kinodynamic::fixedTimeTrajectory, lines 129-138: the times, and the
\* acceleration adjusted when there are three segments.
fixedTimeTimes(T, p1, p2, v1, v2, delta, a1a, sigma, t1a, vLim, twoSegment) ==
  LET a1 == IF twoSegment THEN a1a
            ELSE Over(Plus(Times(Minus(vLim, v1), Minus(vLim, v1)),
                           Times(Minus(vLim, v2), Minus(vLim, v2))),
                      Times(Num(2), Minus(Times(vLim, T), Minus(p2, p1))))
  IN [T |-> T, sigma |-> sigma, a1 |-> a1, a2 |-> Neg(a1),
      t1 |-> IF twoSegment THEN t1a ELSE Over(Minus(vLim, v1), a1),
      tv |-> IF twoSegment THEN Num(0)
             ELSE cruiseTime(vLim, a1, p1, p2, v1, v2),
      t2 |-> IF twoSegment THEN Minus(T, t1a)
             ELSE Over(Minus(v2, vLim), Neg(a1)),
      twoSegment |-> twoSegment, delta |-> delta, error |-> FALSE]

\* Kinodynamic::fixedTimeTrajectory, lines 126-128, for the *a1 of lines
\* 119-123 and its sign: t1, the velocity limit and the test of the peak.
fixedTimeSegments(k, T, p1, p2, v1, v2, delta, a1a, sigma) ==
  LET t1a == Times(<<1, 2>>, Plus(Over(Minus(v2, v1), a1a), T))
      vLim == Times(Num(sigma), k.vMax_)
  IN fixedTimeTimes(T, p1, p2, v1, v2, delta, a1a, sigma, t1a, vLim,
                    Less(Plus(v1, Times(t1a, a1a)), vLim))

\* Kinodynamic::fixedTimeTrajectory: the out-parameters.
fixedTimeTrajectory(k, T, p1, p2, v1, v2, atZero) ==
  LET delta == fixedTimeDelta(T, p1, p2, v1, v2)
      a1a == fixedTimeAcceleration(T, p1, p2, v1, v2, delta)
  IN fixedTimeSegments(k, T, p1, p2, v1, v2, delta, a1a, sgn(a1a, atZero))

\* ------------------------------------------------------------------ actions
Install(r) ==
  /\ nodes_' = r.nodes_
  /\ edges_' = r.edges_
  /\ connectedComponents_' = r.connectedComponents_
  /\ components' = r.components
  /\ initNode_' = r.initNode_
  /\ goalNodes_' = r.goalNodes_
  /\ kdTree_' = r.kdTree_

\* The node list stays within the bound after the step.
NodesWithin == Len(nodes_') <= MaxNodes

NodeIds == 1..Len(nodes_)

\* The call just made and what it returned: the pointer or index returned
\* (ret), the out-parameter of the nearest queries (minDistance) and the
\* boolean of path_exists (exists); aborted tells that the call ended in a
\* failed assertion instead of returning.
Returned(op, ret, minDistance, exists) ==
  /\ last' = [op |-> op, ret |-> ret, minDistance |-> minDistance,
              exists |-> exists, aborted |-> FALSE]
  /\ UNCHANGED <<kinodynamic, planner>>

\* The call ended in a failed assertion.
Aborted(op) ==
  /\ last' = [op |-> op, ret |-> 0, minDistance |-> 0, exists |-> FALSE,
              aborted |-> TRUE]
  /\ UNCHANGED <<kinodynamic, planner>>

\* ktStatus, and the null shared pointer.
KD_OK == "KD_OK"
KD_ERROR == "KD_ERROR"
NullPtr == 0

\* The call just made on the planner: the operation, the rank it was given,
\* what it returned, the notifications it sent, and for the solving calls
\* what the libraries answered (envs) and what each solveOneProblem
\* returned (rets).
NoCall ==
  [op |-> "create", rank |-> 0, ret |-> NullPtr, notified |-> <<>>,
   envs |-> <<>>, rets |-> <<>>]

\* What CkwsNode::hasTransitiveOutNode and CkwsRoadmap::addEdge of the
\* library do with a node and itself.
KwsLibraries ==
  {[reflexive |-> TRUE, selfLoops |-> FALSE],
   [reflexive |-> FALSE, selfLoops |-> TRUE],
   [reflexive |-> FALSE, selfLoops |-> FALSE]}

\* ChppPlanner::ChppPlanner: no problem, no obstacle. The robot the problems
\* are about is kept with the planner: its steering method and its current
\* configuration.
ChppPlanner ==
  [hppProblemVector |-> <<>>, mObstacleList |-> <<>>,
   steeringMethod |-> NullPtr, currentConfig |-> NullPtr,
   kws |-> [reflexive |-> FALSE, selfLoops |-> FALSE], call |-> NoCall]

\* A steering method as constructed, before any call: bounds k, no schedule.
NoSchedule ==
  [T |-> NaN, sigma |-> 0, a1 |-> NaN, a2 |-> NaN, t1 |-> NaN, tv |-> NaN,
   t2 |-> NaN, twoSegment |-> FALSE, delta |-> NaN, error |-> FALSE]

\* The robot a steering method is built for: the size of its configurations
\* and the dimension of its extra configuration space.
StandardDevice == [configSize |-> 3, extraDim |-> 2]

\* Kinodynamic::Kinodynamic, line 48: the test that prints the error.
lacksExtraDof(device) == 2 * device.extraDim < device.configSize

Constructed(k) ==
  [aMax_ |-> k.aMax_, vMax_ |-> k.vMax_, op |-> "create",
   in |-> [T |-> NaN, p1 |-> NaN, p2 |-> NaN, v1 |-> NaN, v2 |-> NaN],
   out |-> NoSchedule, device |-> StandardDevice,
   printed |-> lacksExtraDof(StandardDevice)]

Called(op, ret) == Returned(op, ret, 0, FALSE)

unchangedRoadmap ==
  UNCHANGED <<nodes_, edges_, connectedComponents_, components, initNode_,
              goalNodes_, kdTree_>>

Init ==
  /\ nodes_ = <<>>
  /\ edges_ = <<>>
  /\ connectedComponents_ = {}
  /\ components = [c \in CCIds |-> EmptyCC]
  /\ initNode_ = NoNode
  /\ goalNodes_ = <<>>
  /\ kdTree_ = {}
  /\ planner = ChppPlanner
  /\ last = [op |-> "create", ret |-> 0, minDistance |-> 0, exists |-> FALSE,
             aborted |-> FALSE]
  /\ kinodynamic = Constructed(KinodynamicBounds)

\* One call of each public operation, for given arguments.
AddNodeCall(q) ==
  \E order \in Orders(connectedComponents_) :
    LET a == addNode(Roadmap, q, order)
    IN /\ Install(a.rm)
       /\ Called("add_node", a.ret)

AddNodeInCall(q, cc) ==
  LET a == addNodeIn(Roadmap, q, cc)
  IN /\ Install(a.rm)
     /\ Called("add_node_in", a.ret)

AddEdgeCall(n1, n2, path) ==
  \E ccs \in MergeOrders(Roadmap, nodes_[n1].connectedComponent,
                         nodes_[n2].connectedComponent) :
    LET r == addEdge(Roadmap, n1, n2, path, ccs)
    IN /\ Install(r)
       /\ Called("add_edge", Len(r.edges_))

AddEdgesCall(from, to, path) ==
  /\ Install(addEdges(Roadmap, from, to, path))
  /\ Called("add_edges", 0)

AddNodeAndEdgesCall(from, q, path) ==
  LET a == addNodeAndEdges(Roadmap, from, q, path)
  IN /\ Install(a.rm)
     /\ Called("add_node_and_edges", a.ret)

AddGoalNodeCall(q) ==
  \E order \in Orders(connectedComponents_) :
    LET r == addGoalNode(Roadmap, q, order)
    IN /\ Install(r)
       /\ Called("add_goal", 0)

SetInitNodeCall(n) ==
  /\ Install(setInitNode(Roadmap, n))
  /\ Called("set_init", 0)

NearestCall(q) ==
  \E order \in Orders(connectedComponents_) :
    /\ Returned("nearest", nearestNode(Roadmap, q, order).node,
                nearestNode(Roadmap, q, order).dist, FALSE)
    /\ unchangedRoadmap

NearestInCall(q, cc) ==
  /\ Returned("nearest_in", nearestNodeIn(Roadmap, q, cc).node,
              nearestNodeIn(Roadmap, q, cc).dist, FALSE)
  /\ unchangedRoadmap

\* The operations on a roadmap grown from empty.
AddNode == \E q \in Configs : AddNodeCall(q) /\ NodesWithin

AddNodeIn ==
  \E q \in Configs, cc \in connectedComponents_ : AddNodeInCall(q, cc) /\ NodesWithin

AddEdge ==
  \E n1 \in NodeIds, n2 \in NodeIds, path \in Paths :
    /\ Len(edges_) + 1 <= MaxEdges
    /\ AddEdgeCall(n1, n2, path)

AddEdges ==
  \E from \in NodeIds, to \in NodeIds, path \in Paths :
    /\ Len(edges_) + 2 <= MaxEdges
    /\ AddEdgesCall(from, to, path)

AddNodeAndEdges ==
  \E from \in NodeIds, q \in Configs, path \in Paths :
    /\ Len(edges_) + 2 <= MaxEdges
    /\ AddNodeAndEdgesCall(from, q, path)
    /\ NodesWithin

AddGoalNode ==
  /\ Len(goalNodes_) + 1 <= MaxGoals
  /\ \E q \in Configs : AddGoalNodeCall(q) /\ NodesWithin

SetInitNode == \E n \in NodeIds : SetInitNodeCall(n)

Clear ==
  /\ Install(clear(Roadmap))
  /\ Called("clear", 0)

Nearest ==
  /\ nodes_ # <<>>
  /\ \E q \in Configs : NearestCall(q)

NearestIn == \E q \in Configs, cc \in connectedComponents_ : NearestInCall(q, cc)

PathExists ==
  /\ initNode_ # NoNode
  /\ Returned("path_exists", 0, 0, pathExists(Roadmap))
  /\ unchangedRoadmap

\* Every mutating operation, from the empty roadmap.
Next ==
  \/ AddNode
  \/ AddNodeIn
  \/ AddEdge
  \/ AddEdges
  \/ AddNodeAndEdges
  \/ AddGoalNode
  \/ Clear

Spec == Init /\ [][Next]_vars

\* Nearest-neighbour queries on roadmaps whose components grow and merge.
NextQuery ==
  \/ AddNode
  \/ AddNodeIn
  \/ AddEdge
  \/ Nearest
  \/ NearestIn

SpecQuery == Init /\ [][NextQuery]_vars

\* The roadmap after add_node of A, B, C, D.
RECURSIVE freshRoadmap(_)
freshRoadmap(k) ==
  IF k = 0 THEN EmptyRoadmap
  ELSE LET r == freshRoadmap(k - 1)
       IN addNode(r, ScenarioConfigs[k],
                  CHOOSE o \in Orders(r.connectedComponents_) : TRUE).rm

InitScenario ==
  /\ nodes_ = freshRoadmap(Len(ScenarioConfigs)).nodes_
  /\ edges_ = <<>>
  /\ connectedComponents_ = freshRoadmap(Len(ScenarioConfigs)).connectedComponents_
  /\ components = freshRoadmap(Len(ScenarioConfigs)).components
  /\ initNode_ = NoNode
  /\ goalNodes_ = <<>>
  /\ kdTree_ = freshRoadmap(Len(ScenarioConfigs)).kdTree_
  /\ planner = ChppPlanner
  /\ last = [op |-> "add_node", ret |-> Len(ScenarioConfigs), minDistance |-> 0,
             exists |-> FALSE, aborted |-> FALSE]
  /\ kinodynamic = Constructed(KinodynamicBounds)

ScenarioAddEdge ==
  \E n1 \in NodeIds, n2 \in NodeIds, path \in Paths :
    /\ Len(edges_) + 1 <= MaxScenarioEdges
    /\ AddEdgeCall(n1, n2, path)

ScenarioAddEdges ==
  \E from \in NodeIds, to \in NodeIds, path \in Paths :
    /\ Len(edges_) + 2 <= MaxScenarioEdges
    /\ AddEdgesCall(from, to, path)

\* Edges added one by one or in pairs between A, B, C, D.
NextEdges ==
  \/ ScenarioAddEdge
  \/ ScenarioAddEdges

SpecEdges == InitScenario /\ [][NextEdges]_vars

PathAddEdge ==
  \E n1 \in NodeIds, n2 \in NodeIds, path \in Paths :
    /\ Len(edges_) + 1 <= MaxPathEdges
    /\ AddEdgeCall(n1, n2, path)

PathAddEdges ==
  \E from \in NodeIds, to \in NodeIds, path \in Paths :
    /\ Len(edges_) + 2 <= MaxPathEdges
    /\ AddEdgesCall(from, to, path)

PathAddGoalNode ==
  /\ Len(goalNodes_) + 1 <= MaxGoals
  /\ \E k \in 1..Len(ScenarioConfigs) : AddGoalNodeCall(ScenarioConfigs[k])

\* Init and goal bookkeeping and the path query between A, B, C, D.
NextPath ==
  \/ PathAddEdge
  \/ PathAddEdges
  \/ SetInitNode
  \/ PathAddGoalNode
  \/ PathExists

SpecPath == InitScenario /\ [][NextPath]_vars

\* ------------------------------------------------- calls outside the contract
\* The calls below are those of a build with assertions (NDEBUG not defined):
\* a failing assert aborts the process.
MaxMisuseEdges == 2
MaxMisuseNodes == 2

\* The node list stays within the bound of these runs after the step.
MisuseNodesWithin == Len(nodes_') <= MaxMisuseNodes

\* A component the caller created itself: never inserted in connectedComponents_.
ForeignCC == MaxNodes + 1

\* Components a caller can hold that the roadmap does not track: its own, and
\* those merged away.
UntrackedCCs ==
  {c \in CCIds \ connectedComponents_ : c = ForeignCC \/ c <= Len(nodes_)}

\* assert (nb == 1) of Roadmap::merge fails for some component of ccs.
eraseAssertFails(r, cc1, ccs) ==
  \E i \in DOMAIN ccs : ccs[i] # cc1 /\ ccs[i] \notin r.connectedComponents_

\* Roadmap::merge up to the first failure of assert (nb == 1): the component
\* has been merged into cc1 when the assertion is evaluated.
RECURSIVE mergeUntilAssert(_, _, _)
mergeUntilAssert(r, cc1, ccs) ==
  IF ccs = <<>> THEN r
  ELSE LET c == Head(ccs)
           r1 == [ccMerge(r, cc1, c) EXCEPT !.connectedComponents_ = @ \ {c}]
       IN IF c = cc1 THEN mergeUntilAssert(r, cc1, Tail(ccs))
          ELSE IF c \notin r.connectedComponents_ THEN r1
          ELSE mergeUntilAssert(r1, cc1, Tail(ccs))

\* Roadmap::addEdge in a build with assertions, when the merge it makes fails
\* assert (nb == 1): the roadmap at the abort.
addEdgeUntilAssert(r, n1, n2, path, ccs) ==
  LET r1 == attachEdge(r, n1, n2, path)
  IN mergeUntilAssert(r1, r1.nodes_[n1].connectedComponent, ccs)

\* The call of Roadmap::addEdge reaches Roadmap::merge and fails its assertion.
addEdgeAsserts(r, n1, n2, ccs) ==
  LET cc1 == r.nodes_[n1].connectedComponent
      cc2 == r.nodes_[n2].connectedComponent
  IN /\ ~canReach(r, cc1, cc2)
     /\ canReach(r, cc2, cc1)
     /\ eraseAssertFails(r, cc1, ccs)

\* add_edge: a failing assert (nb == 1) aborts the call.
MisuseAddEdgeCall(n1, n2, path) ==
  \E ccs \in MergeOrders(Roadmap, nodes_[n1].connectedComponent,
                         nodes_[n2].connectedComponent) :
    \/ /\ addEdgeAsserts(Roadmap, n1, n2, ccs)
       /\ Install(addEdgeUntilAssert(Roadmap, n1, n2, path, ccs))
       /\ Aborted("add_edge")
    \/ /\ ~addEdgeAsserts(Roadmap, n1, n2, ccs)
       /\ AddEdgeCall(n1, n2, path)

\* add_node_in with a component the roadmap does not track. assert
\* (connectedComponent) holds, the pointer not being null. With nodes in the
\* roadmap and none in the component, nearestNode fails its assertion (line
\* 172). In every other case the call goes on as with a tracked component.
MisuseAddNodeInCall(q, cc) ==
  LET fails == Len(nodes_) # 0 /\ components[cc].nodes = {}
  IN \/ /\ fails
        /\ unchangedRoadmap
        /\ Aborted("add_node_in")
     \/ /\ ~fails
        /\ AddNodeInCall(q, cc)

\* add_node when the roadmap has nodes but no tracked component holds any:
\* nearestNode returns the null pointer it started with (line 150), which
\* line 88 dereferences; the call crashes or reads a configuration that
\* differs from q. In every other case the call is the ordinary one.
MisuseAddNodeCall(q) ==
  LET null == /\ Len(nodes_) # 0
              /\ \A c \in connectedComponents_ : components[c].nodes = {}
      n == Len(nodes_) + 1
  IN \/ /\ null
        /\ unchangedRoadmap
        /\ Aborted("add_node")
     \/ /\ null
        /\ Install(addConnectedComponent(pushNode(Roadmap, q, n), n))
        /\ Called("add_node", n)
     \/ /\ ~null
        /\ AddNodeCall(q)

\* nearest_in with a component without nodes: assert (line 172) aborts.
MisuseNearestInCall(q, cc) ==
  /\ unchangedRoadmap
  /\ Aborted("nearest_in")

\* path_exists with no init node: initNode ()->connectedComponent () (line
\* 244) dereferences a null pointer, which crashes or reads some component.
MisusePathExistsCall ==
  \/ /\ unchangedRoadmap
     /\ Aborted("path_exists")
  \/ \E b \in BOOLEAN :
       /\ Returned("path_exists", 0, 0, b)
       /\ unchangedRoadmap

\* The process goes on only while no call has aborted.
Running == ~last.aborted

MisuseAddNode ==
  /\ Running
  /\ \E q \in Configs : MisuseAddNodeCall(q) /\ MisuseNodesWithin

MisuseAddNodeIn ==
  /\ Running
  /\ \E q \in Configs, cc \in UntrackedCCs :
       MisuseAddNodeInCall(q, cc) /\ MisuseNodesWithin

MisuseAddEdge ==
  /\ Running
  /\ \E n1 \in NodeIds, n2 \in NodeIds, path \in Paths :
       /\ Len(edges_) + 1 <= MaxMisuseEdges
       /\ MisuseAddEdgeCall(n1, n2, path)

MisuseNearestIn ==
  /\ Running
  /\ \E q \in Configs, cc \in UntrackedCCs :
       components[cc].nodes = {} /\ MisuseNearestInCall(q, cc)

MisusePathExists ==
  /\ Running
  /\ initNode_ = NoNode
  /\ MisusePathExistsCall

\* Callers that break the preconditions, on a roadmap grown from empty.
NextMisuse ==
  \/ MisuseAddNode
  \/ MisuseAddNodeIn
  \/ MisuseAddEdge
  \/ MisuseNearestIn
  \/ MisusePathExists

SpecMisuse == Init /\ [][NextMisuse]_vars

\* ---------------------------------------------------------------- steering
\* The axis inputs of the steering method: start positions are 0..MaxStart,
\* end positions the integers up to MaxPosition in magnitude and the far goal
\* of the cruise scenario, velocities the multiples of 1 / VelocitySteps up to 1 in magnitude (the
\* least vMax_ used), durations the integers up to MaxDuration.
MaxStart == 1

MaxPosition == 4

VelocitySteps == 2

MaxDuration == 6

Positions == ((0 - MaxPosition)..MaxPosition) \cup {100}

Velocities == {Double(i, VelocitySteps) : i \in (0 - VelocitySteps)..VelocitySteps}

Durations == 1..MaxDuration

\* The bounds of the constructor and those of the two scenarios.
SteeringBounds ==
  {KinodynamicBounds,
   [aMax_ |-> <<1, 1>>, vMax_ |-> <<10, 1>>],
   [aMax_ |-> <<1, 1>>, vMax_ |-> <<1, 1>>]}

SgnAtZero == {0 - 1, 0, 1}

Bounds == [aMax_ |-> kinodynamic.aMax_, vMax_ |-> kinodynamic.vMax_]

\* The state of the axis a call is made for; the duration is given with the
\* call of fixedTimeTrajectory.
AxisInputs ==
  [T : {NaN},
   p1 : {Num(p) : p \in 0..MaxStart},
   p2 : {Num(p) : p \in Positions},
   v1 : Velocities,
   v2 : Velocities]

\* A steering method with bounds k and the arguments of the call to come.
InitSteering ==
  /\ nodes_ = <<>>
  /\ edges_ = <<>>
  /\ connectedComponents_ = {}
  /\ components = [c \in CCIds |-> EmptyCC]
  /\ initNode_ = NoNode
  /\ goalNodes_ = <<>>
  /\ kdTree_ = {}
  /\ planner = ChppPlanner
  /\ last = [op |-> "create", ret |-> 0, minDistance |-> 0, exists |-> FALSE,
             aborted |-> FALSE]
  /\ kinodynamic \in {[Constructed(k) EXCEPT !.in = in] :
                        k \in SteeringBounds, in \in AxisInputs}

\* One call of computeMinTime on an input whose square root is exact.
ComputeMinTimeCall(p1, p2, v1, v2, atZero) ==
  LET out == computeMinTime(Bounds, p1, p2, v1, v2, atZero)
  IN /\ SqrtExact(out.delta)
     /\ kinodynamic' = [kinodynamic EXCEPT !.op = "min_time", !.out = out]
     /\ unchangedRoadmap
     /\ UNCHANGED <<last, planner>>

\* One call of fixedTimeTrajectory on an input whose square root is exact.
FixedTimeTrajectoryCall(T, p1, p2, v1, v2, atZero) ==
  LET out == fixedTimeTrajectory(Bounds, T, p1, p2, v1, v2, atZero)
  IN /\ SqrtExact(out.delta)
     /\ kinodynamic' = [kinodynamic EXCEPT !.op = "fixed_time", !.in.T = T,
                                           !.out = out]
     /\ unchangedRoadmap
     /\ UNCHANGED <<last, planner>>

ComputeMinTime ==
  /\ kinodynamic.op = "create"
  /\ \E atZero \in SgnAtZero :
       ComputeMinTimeCall(kinodynamic.in.p1, kinodynamic.in.p2,
                          kinodynamic.in.v1, kinodynamic.in.v2, atZero)

FixedTimeTrajectory ==
  /\ kinodynamic.op = "create"
  /\ \E T \in Durations, atZero \in SgnAtZero :
       FixedTimeTrajectoryCall(Num(T), kinodynamic.in.p1,
                               kinodynamic.in.p2, kinodynamic.in.v1,
                               kinodynamic.in.v2, atZero)

\* The steering method applied once to each input.
NextSteering ==
  \/ ComputeMinTime
  \/ FixedTimeTrajectory

SpecSteering == InitSteering /\ [][NextSteering]_vars

\* ------------------------------------------------------------ construction
\* The robots a steering method is asked for: configurations of up to
\* MaxConfigSize coordinates, any number of them extra.
MaxConfigSize == 5

Devices ==
  {device \in [configSize : 0..MaxConfigSize, extraDim : 0..MaxConfigSize] :
     device.extraDim <= device.configSize}

\* The axis states of the calls that follow a construction.
ConstructionInputs ==
  {in \in AxisInputs : in.p1 = Num(0) /\ in.p2 \in {Num(2), Num(0 - 2)}
                         /\ in.v1 = Num(0) /\ in.v2 = Num(0)}

\* No steering method yet: a robot, and the arguments of the call to come.
InitConstruction ==
  /\ nodes_ = <<>>
  /\ edges_ = <<>>
  /\ connectedComponents_ = {}
  /\ components = [c \in CCIds |-> EmptyCC]
  /\ initNode_ = NoNode
  /\ goalNodes_ = <<>>
  /\ kdTree_ = {}
  /\ planner = ChppPlanner
  /\ last = [op |-> "create", ret |-> 0, minDistance |-> 0, exists |-> FALSE,
             aborted |-> FALSE]
  /\ kinodynamic \in
       {[aMax_ |-> NaN, vMax_ |-> NaN, op |-> "none", in |-> in,
         out |-> NoSchedule, device |-> device, printed |-> FALSE] :
          device \in Devices, in \in ConstructionInputs}

\* Kinodynamic::create for the robot given: the constructor prints when the
\* robot lacks extra degrees of freedom, and sets the bounds in any case.
Construct ==
  /\ kinodynamic.op = "none"
  /\ kinodynamic' = [kinodynamic EXCEPT
       !.op = "create",
       !.aMax_ = KinodynamicBounds.aMax_,
       !.vMax_ = KinodynamicBounds.vMax_,
       !.printed = lacksExtraDof(kinodynamic.device)]
  /\ unchangedRoadmap
  /\ UNCHANGED <<last, planner>>

NextConstruction ==
  \/ Construct
  \/ ComputeMinTime
  \/ FixedTimeTrajectory

SpecConstruction == InitConstruction /\ [][NextConstruction]_vars

\* -------------------------------------------------------------- ChppPlanner
\* Bounds of the planner runs: problems in the vector, obstacles in a list,
\* paths stored in a problem.
MaxProblems == 2
MaxObstacles == 2
MaxPaths == 3

\* The robot (a null pointer can be given as well), the configurations, the
\* collision objects and the obstacle lists callers pass.
Robots == {NullPtr, 1}
KwsConfigs == {1, 2}
Objects == {1, 2}
ObstacleLists ==
  UNION {[1..n -> Objects] : n \in 0..MaxObstacles}

\* CkwsRoadmap of the library: the nodes by their configurations, in the
\* order of insertion, and the edges as pairs of nodes.
EmptyKwsRoadmap == [nodes |-> <<>>, edges |-> {}]

\* CkwsRoadmap::nodeWithConfig: a node of that configuration, null when
\* there is none.
nodeWithConfig(roadmap, config) ==
  LET found == {i \in DOMAIN roadmap.nodes : roadmap.nodes[i] = config}
  IN IF found = {} THEN NullPtr ELSE Min(found)

\* CkwsNode::create and CkwsRoadmap::addNode.
kwsAddNode(roadmap, config) ==
  [roadmap EXCEPT !.nodes = Append(@, config)]

\* The nodes reached from the nodes of S along edges.
RECURSIVE transitiveOutNodes(_, _)
transitiveOutNodes(roadmap, S) ==
  LET T == S \cup {e[2] : e \in {f \in roadmap.edges : f[1] \in S}}
  IN IF T = S THEN S ELSE transitiveOutNodes(roadmap, T)

\* CkwsNode::hasTransitiveOutNode: to is reached from from along edges; the
\* library decides whether a node reaches itself without an edge.
hasTransitiveOutNode(roadmap, kws, from, to) ==
  \/ kws.reflexive /\ from = to
  \/ to \in transitiveOutNodes(roadmap,
                               {e[2] : e \in {f \in roadmap.edges : f[1] = from}})

\* CkwsRoadmap::addEdge: the roadmap after the call and the status; the
\* library decides whether it accepts an edge from a node to itself.
kwsAddEdge(roadmap, kws, from, to) ==
  IF from = to /\ ~kws.selfLoops
  THEN [roadmap |-> roadmap, status |-> KD_ERROR]
  ELSE [roadmap |-> [roadmap EXCEPT !.edges = @ \cup {<<from, to>>}],
        status |-> KD_OK]

\* CkwsRoadmapBuilder::solveProblem on the roadmap: the builder puts the two
\* configurations in its roadmap and, when it solves the problem, connects
\* them (the nodes in between are left out).
kwsSolveProblem(roadmap, kws, init, goal, solved) ==
  LET r1 == IF nodeWithConfig(roadmap, init) = NullPtr
            THEN kwsAddNode(roadmap, init) ELSE roadmap
      r2 == IF nodeWithConfig(r1, goal) = NullPtr
            THEN kwsAddNode(r1, goal) ELSE r1
      start == nodeWithConfig(r2, init)
      end == nodeWithConfig(r2, goal)
  IN IF solved /\ ~hasTransitiveOutNode(r2, kws, start, end)
     THEN kwsAddEdge(r2, kws, start, end).roadmap
     ELSE r2

\* ChppProblem::ChppProblem (robot, obstacleList): nothing else is defined.
\* The roadmap is the one of the roadmap builder.
ChppProblem(robot, obstacleList) ==
  [robot |-> robot, initConfig |-> NullPtr, goalConfig |-> NullPtr,
   roadmapBuilder |-> NullPtr, roadmap |-> EmptyKwsRoadmap,
   pathOptimizer |-> NullPtr, obstacleList |-> obstacleList, paths |-> <<>>]

getNbHppProblems(p) == Len(p.hppProblemVector)

\* The planner after a call that returned ret and sent the notifications.
answer(p, op, rank, ret, notified) ==
  [p EXCEPT !.call = [op |-> op, rank |-> rank, ret |-> ret,
                      notified |-> notified, envs |-> <<>>, rets |-> <<>>]]

\* ChppPlanner::addHppProblem.
addHppProblem(p, robot) ==
  answer([p EXCEPT !.hppProblemVector =
                     Append(@, ChppProblem(robot, p.mObstacleList))],
         "addHppProblem", 0, KD_OK, <<"ID_HPP_ADD_ROBOT">>)

\* ChppPlanner::removeHppProblem with mObstacleList.clear () outside the
\* test of the size.
removeHppProblem_clearsAlways(p) ==
  IF getNbHppProblems(p) # 0
  THEN answer([p EXCEPT
                 !.hppProblemVector = SubSeq(@, 1, Len(@) - 1),
                 !.mObstacleList = <<>>],
              "removeHppProblem", 0, KD_OK, <<>>)
  ELSE answer([p EXCEPT !.mObstacleList = <<>>],
              "removeHppProblem", 0, KD_ERROR, <<>>)

\* ChppPlanner::removeHppProblem.
removeHppProblem(p) ==
  IF getNbHppProblems(p) # 0
  THEN answer([p EXCEPT
                 !.hppProblemVector = SubSeq(@, 1, Len(@) - 1),
                 !.mObstacleList = <<>>],
              "removeHppProblem", 0, KD_OK, <<>>)
  ELSE answer(p, "removeHppProblem", 0, KD_ERROR, <<>>)

\* ChppPlanner::addHppProblemAtBeginning.
addHppProblemAtBeginning(p, robot) ==
  answer([p EXCEPT !.hppProblemVector =
                     <<ChppProblem(robot, p.mObstacleList)>> \o @],
         "addHppProblemAtBeginning", 0, KD_OK, <<"ID_HPP_ADD_ROBOT">>)

\* ChppPlanner::removeHppProblemAtBeginning.
removeHppProblemAtBeginning(p) ==
  IF getNbHppProblems(p) # 0
  THEN answer([p EXCEPT !.hppProblemVector = Tail(@),
                        !.mObstacleList = <<>>],
              "removeHppProblemAtBeginning", 0, KD_OK, <<>>)
  ELSE answer(p, "removeHppProblemAtBeginning", 0, KD_ERROR, <<>>)

\* ChppPlanner::obstacleList (collisionList): the list of the planner and
\* the list of every problem are set.
obstacleList(p, collisionList) ==
  answer([p EXCEPT
            !.mObstacleList = collisionList,
            !.hppProblemVector =
               [i \in DOMAIN @ |-> [@[i] EXCEPT !.obstacleList = collisionList]]],
         "obstacleList", 0, KD_OK,
         <<"ID_HPP_REMOVE_OBSTACLES", "ID_HPP_SET_OBSTACLE_LIST">>)

\* ChppPlanner::addObstacle: the object is appended to the list of the
\* planner and to the list of every problem.
addObstacle(p, object) ==
  answer([p EXCEPT
            !.mObstacleList = Append(@, object),
            !.hppProblemVector =
               [i \in DOMAIN @ |->
                  [@[i] EXCEPT !.obstacleList = Append(@, object)]]],
         "addObstacle", 0, KD_OK, <<"ID_HPP_ADD_OBSTACLE">>)

\* ChppPlanner::robotIthProblem.
robotIthProblem(p, rank) ==
  answer(p, "robotIthProblem", rank,
         IF rank < getNbHppProblems(p)
         THEN p.hppProblemVector[rank + 1].robot ELSE NullPtr,
         <<>>)

\* ChppPlanner::robotCurrentConfIthProblem (rank): status is what
\* getCurrentConfig of the robot returns.
robotCurrentConfIthProblem(p, rank, status) ==
  answer(p, "robotCurrentConfIthProblem", rank,
         IF rank < getNbHppProblems(p) /\ status = KD_OK
         THEN p.currentConfig ELSE NullPtr,
         <<>>)

\* ChppPlanner::robotCurrentConfIthProblem (rank, config), both overloads:
\* status is what the robot returns when the configuration is applied.
robotCurrentConfIthProblemSet(p, rank, config, status) ==
  IF rank < getNbHppProblems(p) /\ status = KD_OK
  THEN answer([p EXCEPT !.currentConfig = config],
              "robotCurrentConfIthProblemSet", rank, KD_OK,
              <<"ID_HPP_SET_CURRENT_CONFIG">>)
  ELSE answer(p, "robotCurrentConfIthProblemSet", rank, KD_ERROR, <<>>)

\* ChppPlanner::initConfIthProblem (rank).
initConfIthProblem(p, rank) ==
  answer(p, "initConfIthProblem", rank,
         IF rank < getNbHppProblems(p)
         THEN p.hppProblemVector[rank + 1].initConfig ELSE NullPtr,
         <<>>)

\* ChppPlanner::initConfIthProblem (rank, config).
initConfIthProblemSet(p, rank, config) ==
  IF rank < getNbHppProblems(p)
  THEN answer([p EXCEPT !.hppProblemVector[rank + 1].initConfig = config],
              "initConfIthProblemSet", rank, KD_OK, <<>>)
  ELSE answer(p, "initConfIthProblemSet", rank, KD_ERROR, <<>>)

\* ChppPlanner::goalConfIthProblem (rank).
goalConfIthProblem(p, rank) ==
  answer(p, "goalConfIthProblem", rank,
         IF rank < getNbHppProblems(p)
         THEN p.hppProblemVector[rank + 1].goalConfig ELSE NullPtr,
         <<>>)

\* ChppPlanner::goalConfIthProblem (rank, config).
goalConfIthProblemSet(p, rank, config) ==
  IF rank < getNbHppProblems(p)
  THEN answer([p EXCEPT !.hppProblemVector[rank + 1].goalConfig = config],
              "goalConfIthProblemSet", rank, KD_OK, <<>>)
  ELSE answer(p, "goalConfIthProblemSet", rank, KD_ERROR, <<>>)

\* ChppPlanner::roadmapBuilderIthProblem (rank, inRoadmapBuilder, inDisplay):
\* the builder given comes with a roadmap of its own, empty.
roadmapBuilderIthProblemSet(p, rank, inRoadmapBuilder, inDisplay) ==
  IF rank >= getNbHppProblems(p)
  THEN answer(p, "roadmapBuilderIthProblemSet", rank, KD_ERROR, <<>>)
  ELSE answer([p EXCEPT
                 !.hppProblemVector[rank + 1].roadmapBuilder = inRoadmapBuilder,
                 !.hppProblemVector[rank + 1].roadmap = EmptyKwsRoadmap],
              "roadmapBuilderIthProblemSet", rank, KD_OK,
              IF inDisplay
              THEN <<"ID_HPP_REMOVE_ROADMAPBUILDER", "ID_HPP_ADD_ROADMAPBUILDER">>
              ELSE <<"ID_HPP_REMOVE_ROADMAPBUILDER">>)

\* ChppPlanner::roadmapBuilderIthProblem (rank).
roadmapBuilderIthProblem(p, rank) ==
  answer(p, "roadmapBuilderIthProblem", rank,
         IF rank < getNbHppProblems(p)
         THEN p.hppProblemVector[rank + 1].roadmapBuilder ELSE NullPtr,
         <<>>)

\* ChppPlanner::pathOptimizerIthProblem (rank, inPathOptimizer).
pathOptimizerIthProblemSet(p, rank, inPathOptimizer) ==
  IF rank >= getNbHppProblems(p)
  THEN answer(p, "pathOptimizerIthProblemSet", rank, KD_ERROR, <<>>)
  ELSE answer([p EXCEPT
                 !.hppProblemVector[rank + 1].pathOptimizer = inPathOptimizer],
              "pathOptimizerIthProblemSet", rank, KD_OK, <<>>)

\* ChppPlanner::pathOptimizerIthProblem (rank).
pathOptimizerIthProblem(p, rank) ==
  answer(p, "pathOptimizerIthProblem", rank,
         IF rank < getNbHppProblems(p)
         THEN p.hppProblemVector[rank + 1].pathOptimizer ELSE NullPtr,
         <<>>)

\* ChppPlanner::steeringMethodIthProblem (rank, inSM): the steering method
\* is the one of the robot.
steeringMethodIthProblemSet(p, rank, inSM) ==
  IF rank >= getNbHppProblems(p)
  THEN answer(p, "steeringMethodIthProblemSet", rank, KD_ERROR, <<>>)
  ELSE answer([p EXCEPT !.steeringMethod = inSM],
              "steeringMethodIthProblemSet", rank, KD_OK, <<>>)

\* ChppPlanner::steeringMethodIthProblem (rank).
steeringMethodIthProblem(p, rank) ==
  answer(p, "steeringMethodIthProblem", rank,
         IF rank < getNbHppProblems(p) THEN p.steeringMethod ELSE NullPtr,
         <<>>)

\* ChppPlanner::solveOneProblem, lines 497-538: the direct path is valid. The
\* two nodes are looked up before either is created.
solveDirect(p, problemId) ==
  LET hppProblem == p.hppProblemVector[problemId + 1]
      roadmap == hppProblem.roadmap
      startFound == nodeWithConfig(roadmap, hppProblem.initConfig)
      goalFound == nodeWithConfig(roadmap, hppProblem.goalConfig)
      r1 == IF startFound = NullPtr
            THEN kwsAddNode(roadmap, hppProblem.initConfig) ELSE roadmap
      startNode == IF startFound = NullPtr THEN Len(r1.nodes) ELSE startFound
      r2 == IF goalFound = NullPtr
            THEN kwsAddNode(r1, hppProblem.goalConfig) ELSE r1
      goalNode == IF goalFound = NullPtr THEN Len(r2.nodes) ELSE goalFound
      r3 == IF ~hasTransitiveOutNode(r2, p.kws, startNode, goalNode)
            THEN kwsAddEdge(r2, p.kws, startNode, goalNode).roadmap
            ELSE r2
  IN [planner |-> [p EXCEPT
                     !.hppProblemVector[problemId + 1].roadmap = r3,
                     !.hppProblemVector[problemId + 1].paths = Append(@, "direct")],
      status |-> KD_OK]

\* ChppPlanner::solveOneProblem, lines 547-593, with the second addPath
\* inside the test of the path optimizer.
solveWithBuilder_optimizedOnly(p, problemId, env) ==
  LET hppProblem == p.hppProblemVector[problemId + 1]
      roadmap == kwsSolveProblem(hppProblem.roadmap, p.kws,
                                 hppProblem.initConfig, hppProblem.goalConfig,
                                 env.solveProblem # KD_ERROR)
      p1 == [p EXCEPT !.hppProblemVector[problemId + 1].roadmap = roadmap]
  IN IF env.solveProblem # KD_OK
     THEN [planner |-> p1, status |-> KD_ERROR]
     ELSE [planner |-> [p1 EXCEPT !.hppProblemVector[problemId + 1].paths =
                          @ \o (IF hppProblem.pathOptimizer # NullPtr
                                THEN <<"builder", "optimized">>
                                ELSE <<"builder">>)],
           status |-> KD_OK]

\* ChppPlanner::solveOneProblem, lines 547-593: the roadmap builder is asked.
\* env.solveProblem is its answer ("noPath": KD_OK without a path),
\* env.optimizePath the answer of the path optimizer.
solveWithBuilder(p, problemId, env) ==
  LET hppProblem == p.hppProblemVector[problemId + 1]
      roadmap == kwsSolveProblem(hppProblem.roadmap, p.kws,
                                 hppProblem.initConfig, hppProblem.goalConfig,
                                 env.solveProblem # KD_ERROR)
      p1 == [p EXCEPT !.hppProblemVector[problemId + 1].roadmap = roadmap]
      optimized == IF hppProblem.pathOptimizer # NullPtr
                      /\ env.optimizePath = KD_OK
                   THEN "optimized" ELSE "builder"
  IN IF env.solveProblem # KD_OK
     THEN [planner |-> p1, status |-> KD_ERROR]
     ELSE [planner |-> [p1 EXCEPT !.hppProblemVector[problemId + 1].paths =
                                     @ \o <<"builder", optimized>>],
           status |-> KD_OK]

\* ChppPlanner::solveOneProblem: the planner after the call and the status.
\* env.directPath is what the steering method and the validator make of the
\* direct path: "null", "invalid" or "valid".
solveOneProblem(p, problemId, env) ==
  IF problemId >= getNbHppProblems(p)
  THEN [planner |-> p, status |-> KD_ERROR]
  ELSE LET hppProblem == p.hppProblemVector[problemId + 1]
       IN IF \/ hppProblem.robot = NullPtr
             \/ hppProblem.initConfig = NullPtr
             \/ hppProblem.goalConfig = NullPtr
             \/ hppProblem.roadmapBuilder = NullPtr
             \/ p.steeringMethod = NullPtr
          THEN [planner |-> p, status |-> KD_ERROR]
          ELSE IF env.directPath = "valid"
          THEN solveDirect(p, problemId)
          ELSE solveWithBuilder(p, problemId, env)

\* ChppPlanner::solve from problem iProblem on: every problem is solved,
\* rets collects what each solveOneProblem returned.
RECURSIVE solveFrom(_, _, _, _)
solveFrom(p, iProblem, envs, rets) ==
  IF iProblem >= getNbHppProblems(p)
  THEN [p EXCEPT !.call =
          [op |-> "solve", rank |-> 0,
           ret |-> IF \E i \in DOMAIN rets : rets[i] # KD_OK
                   THEN KD_ERROR ELSE KD_OK,
           notified |-> <<>>, envs |-> envs, rets |-> rets]]
  ELSE LET one == solveOneProblem(p, iProblem, envs[iProblem + 1])
       IN solveFrom(one.planner, iProblem + 1, envs, Append(rets, one.status))

\* ChppPlanner::solve.
solve(p, envs) == solveFrom(p, 0, envs, <<>>)

\* ChppPlanner::optimizePath: the path is optimized in place; status is the
\* answer of the path optimizer.
optimizePath(p, inProblemId, inPathId, status) ==
  IF inProblemId >= getNbHppProblems(p)
  THEN answer(p, "optimizePath", inProblemId, KD_ERROR, <<>>)
  ELSE LET hppProblem == p.hppProblemVector[inProblemId + 1]
       IN IF inPathId >= Len(hppProblem.paths)
          THEN answer(p, "optimizePath", inProblemId, KD_ERROR, <<>>)
          ELSE IF hppProblem.pathOptimizer # NullPtr /\ status = KD_OK
          THEN answer([p EXCEPT !.hppProblemVector[inProblemId + 1]
                                   .paths[inPathId + 1] = "optimized"],
                      "optimizePath", inProblemId, KD_OK, <<>>)
          ELSE answer(p, "optimizePath", inProblemId, KD_OK, <<>>)

\* ChppPlanner::getNbPaths.
getNbPaths(p, inProblemId) ==
  answer(p, "getNbPaths", inProblemId,
         IF inProblemId < getNbHppProblems(p)
         THEN Len(p.hppProblemVector[inProblemId + 1].paths) ELSE 0,
         <<>>)

\* ChppPlanner::getPath.
getPath(p, inProblemId, inPathId) ==
  answer(p, "getPath", inProblemId,
         IF /\ inProblemId < getNbHppProblems(p)
            /\ inPathId < Len(p.hppProblemVector[inProblemId + 1].paths)
         THEN p.hppProblemVector[inProblemId + 1].paths[inPathId + 1]
         ELSE NullPtr,
         <<>>)

\* ChppPlanner::addPath.
addPath(p, inProblemId, kwsPath) ==
  IF inProblemId >= Len(p.hppProblemVector)
  THEN answer(p, "addPath", inProblemId, KD_ERROR, <<>>)
  ELSE answer([p EXCEPT !.hppProblemVector[inProblemId + 1].paths =
                          Append(@, kwsPath)],
              "addPath", inProblemId, KD_OK, <<>>)

\* The planner calls leave the roadmap core and the steering method alone.
unchangedCore == unchangedRoadmap /\ UNCHANGED <<last, kinodynamic>>

\* No problem holds more paths than the bound.
PathsWithin(p) ==
  \A i \in DOMAIN p.hppProblemVector :
    Len(p.hppProblemVector[i].paths) <= MaxPaths

AddHppProblem ==
  \E robot \in Robots :
    /\ getNbHppProblems(planner) < MaxProblems
    /\ planner' = addHppProblem(planner, robot)
    /\ unchangedCore

AddHppProblemAtBeginning ==
  \E robot \in Robots :
    /\ getNbHppProblems(planner) < MaxProblems
    /\ planner' = addHppProblemAtBeginning(planner, robot)
    /\ unchangedCore

RemoveHppProblem ==
  /\ planner' = removeHppProblem(planner)
  /\ unchangedCore

RemoveHppProblemAtBeginning ==
  /\ planner' = removeHppProblemAtBeginning(planner)
  /\ unchangedCore

ObstacleList ==
  \E collisionList \in ObstacleLists :
    /\ planner' = obstacleList(planner, collisionList)
    /\ unchangedCore

AddObstacle ==
  \E object \in Objects :
    /\ Len(planner.mObstacleList) < MaxObstacles
    /\ \A i \in DOMAIN planner.hppProblemVector :
         Len(planner.hppProblemVector[i].obstacleList) < MaxObstacles
    /\ planner' = addObstacle(planner, object)
    /\ unchangedCore

\* Problems and obstacles come and go on a planner just created.
NextPlanner ==
  \/ AddHppProblem
  \/ AddHppProblemAtBeginning
  \/ RemoveHppProblem
  \/ RemoveHppProblemAtBeginning
  \/ ObstacleList
  \/ AddObstacle

SpecPlanner == Init /\ [][NextPlanner]_vars

\* What the libraries answer during one solveOneProblem: the direct path of
\* the steering method after validation, the roadmap builder, the optimizer.
SolveEnvs ==
  {[directPath |-> d, solveProblem |-> KD_OK, optimizePath |-> KD_OK] :
     d \in {"valid", "null"}}
    \cup {env \in [directPath : {"invalid"},
                   solveProblem : {KD_OK, KD_ERROR, "noPath"},
                   optimizePath : {KD_OK, KD_ERROR}] :
            env.solveProblem = KD_OK \/ env.optimizePath = KD_OK}

\* The ranks callers pass: the last one is never the rank of a problem.
Ranks == 0..MaxProblems

\* Problems as addHppProblem and the setters leave them, for a robot that
\* exists (the setters and getters of the robot dereference it): with or
\* without configurations, roadmap builder, path optimizer and a path.
RankProblems(list) ==
  {[ChppProblem(1, list) EXCEPT
      !.initConfig = init, !.goalConfig = goal,
      !.roadmapBuilder = tools[1], !.pathOptimizer = tools[2],
      !.paths = paths] :
     init \in {NullPtr, 1}, goal \in {NullPtr, 2},
     tools \in {<<NullPtr, NullPtr>>, <<1, NullPtr>>, <<1, 1>>},
     paths \in {<<>>, <<"given">>}}

\* The planners the rank-taking calls are made on: no problem, one problem,
\* or two problems that are ready to be solved.
RankPlanners ==
  {[ChppPlanner EXCEPT !.hppProblemVector = v, !.mObstacleList = list,
                       !.steeringMethod = sm, !.currentConfig = 1] :
     list \in {<<>>, <<1>>}, sm \in {NullPtr, 1},
     v \in {<<>>} \cup {<<a>> : a \in RankProblems(<<>>)}
             \cup {<<a, b>> : a \in {x \in RankProblems(<<>>) :
                                       x.initConfig # NullPtr /\ x.goalConfig # NullPtr},
                              b \in {x \in RankProblems(<<>>) :
                                       x.roadmapBuilder # NullPtr /\ x.paths = <<>>}}}

InitRanks ==
  /\ nodes_ = <<>>
  /\ edges_ = <<>>
  /\ connectedComponents_ = {}
  /\ components = [c \in CCIds |-> EmptyCC]
  /\ initNode_ = NoNode
  /\ goalNodes_ = <<>>
  /\ kdTree_ = {}
  /\ last = [op |-> "create", ret |-> 0, minDistance |-> 0, exists |-> FALSE,
             aborted |-> FALSE]
  /\ kinodynamic = Constructed(KinodynamicBounds)
  /\ planner \in RankPlanners

\* No call has been made yet on the planner.
Once == planner.call.op = "create"

OneRemoveHppProblem == Once /\ RemoveHppProblem

OneRemoveHppProblemAtBeginning == Once /\ RemoveHppProblemAtBeginning

RobotIthProblem ==
  \E rank \in Ranks :
    Once /\ planner' = robotIthProblem(planner, rank) /\ unchangedCore

RobotCurrentConfIthProblem ==
  \E rank \in Ranks, status \in {KD_OK, KD_ERROR} :
    /\ Once
    /\ planner' = robotCurrentConfIthProblem(planner, rank, status)
    /\ unchangedCore

RobotCurrentConfIthProblemSet ==
  \E rank \in Ranks, config \in KwsConfigs, status \in {KD_OK, KD_ERROR} :
    /\ Once
    /\ planner' = robotCurrentConfIthProblemSet(planner, rank, config, status)
    /\ unchangedCore

InitConfIthProblem ==
  \E rank \in Ranks :
    Once /\ planner' = initConfIthProblem(planner, rank) /\ unchangedCore

InitConfIthProblemSet ==
  \E rank \in Ranks, config \in KwsConfigs \cup {NullPtr} :
    Once /\ planner' = initConfIthProblemSet(planner, rank, config) /\ unchangedCore

GoalConfIthProblem ==
  \E rank \in Ranks :
    Once /\ planner' = goalConfIthProblem(planner, rank) /\ unchangedCore

GoalConfIthProblemSet ==
  \E rank \in Ranks, config \in KwsConfigs \cup {NullPtr} :
    Once /\ planner' = goalConfIthProblemSet(planner, rank, config) /\ unchangedCore

RoadmapBuilderIthProblemSet ==
  \E rank \in Ranks, inRoadmapBuilder \in {NullPtr, 1}, inDisplay \in BOOLEAN :
    /\ Once
    /\ planner' = roadmapBuilderIthProblemSet(planner, rank, inRoadmapBuilder,
                                              inDisplay)
    /\ unchangedCore

RoadmapBuilderIthProblem ==
  \E rank \in Ranks :
    Once /\ planner' = roadmapBuilderIthProblem(planner, rank) /\ unchangedCore

PathOptimizerIthProblemSet ==
  \E rank \in Ranks, inPathOptimizer \in {NullPtr, 1} :
    /\ Once
    /\ planner' = pathOptimizerIthProblemSet(planner, rank, inPathOptimizer)
    /\ unchangedCore

PathOptimizerIthProblem ==
  \E rank \in Ranks :
    Once /\ planner' = pathOptimizerIthProblem(planner, rank) /\ unchangedCore

SteeringMethodIthProblemSet ==
  \E rank \in Ranks, inSM \in {NullPtr, 1} :
    Once /\ planner' = steeringMethodIthProblemSet(planner, rank, inSM) /\ unchangedCore

SteeringMethodIthProblem ==
  \E rank \in Ranks :
    Once /\ planner' = steeringMethodIthProblem(planner, rank) /\ unchangedCore

\* solveOneProblem: the call record keeps what the libraries answered.
SolveOneProblem ==
  \E problemId \in Ranks, env \in SolveEnvs :
    LET one == solveOneProblem(planner, problemId, env)
    IN /\ PathsWithin(one.planner)
       /\ planner' = [one.planner EXCEPT !.call =
            [op |-> "solveOneProblem", rank |-> problemId, ret |-> one.status,
             notified |-> <<>>, envs |-> <<env>>, rets |-> <<one.status>>]]
       /\ unchangedCore

OneSolveOneProblem == Once /\ SolveOneProblem

OptimizePath ==
  \E inProblemId \in Ranks, inPathId \in 0..1, status \in {KD_OK, KD_ERROR} :
    /\ Once
    /\ planner' = optimizePath(planner, inProblemId, inPathId, status)
    /\ unchangedCore

GetNbPaths ==
  \E inProblemId \in Ranks :
    Once /\ planner' = getNbPaths(planner, inProblemId) /\ unchangedCore

GetPath ==
  \E inProblemId \in Ranks, inPathId \in 0..1 :
    Once /\ planner' = getPath(planner, inProblemId, inPathId) /\ unchangedCore

AddPath ==
  \E inProblemId \in Ranks :
    Once /\ planner' = addPath(planner, inProblemId, "given") /\ unchangedCore

\* One call that takes a rank, or one removal, on each planner.
NextRanks ==
  \/ OneRemoveHppProblem
  \/ OneRemoveHppProblemAtBeginning
  \/ RobotIthProblem
  \/ RobotCurrentConfIthProblem
  \/ RobotCurrentConfIthProblemSet
  \/ InitConfIthProblem
  \/ InitConfIthProblemSet
  \/ GoalConfIthProblem
  \/ GoalConfIthProblemSet
  \/ RoadmapBuilderIthProblemSet
  \/ RoadmapBuilderIthProblem
  \/ PathOptimizerIthProblemSet
  \/ PathOptimizerIthProblem
  \/ SteeringMethodIthProblemSet
  \/ SteeringMethodIthProblem
  \/ OneSolveOneProblem
  \/ OptimizePath
  \/ GetNbPaths
  \/ GetPath
  \/ AddPath

SpecRanks == InitRanks /\ [][NextRanks]_vars

\* Problems to solve: with or without robot, configurations (equal or
\* distinct), roadmap builder and path optimizer; no path yet and the empty
\* roadmap of a new builder.
SolveProblems ==
  {[ChppProblem(robot, <<>>) EXCEPT
      !.initConfig = init, !.goalConfig = goal,
      !.roadmapBuilder = builder, !.pathOptimizer = optimizer] :
     robot \in Robots, init \in {NullPtr, 1}, goal \in {NullPtr} \cup KwsConfigs,
     builder \in {NullPtr, 1}, optimizer \in {NullPtr, 1}}

\* The planners the solving calls are made on: one problem of any kind, or
\* two problems with robot, configurations and roadmap builder.
SolvePlanners ==
  {[ChppPlanner EXCEPT !.hppProblemVector = v, !.steeringMethod = sm,
                       !.kws = kws] :
     sm \in {NullPtr, 1}, kws \in KwsLibraries,
     v \in {<<a>> : a \in SolveProblems}
             \cup {<<a, b>> : a \in {x \in SolveProblems :
                                       /\ x.robot # NullPtr
                                       /\ x.initConfig # NullPtr
                                       /\ x.goalConfig = 2
                                       /\ x.pathOptimizer = NullPtr},
                              b \in {x \in SolveProblems :
                                       /\ x.robot # NullPtr
                                       /\ x.initConfig # NullPtr
                                       /\ x.goalConfig = 2
                                       /\ x.roadmapBuilder # NullPtr}}}

InitSolve ==
  /\ nodes_ = <<>>
  /\ edges_ = <<>>
  /\ connectedComponents_ = {}
  /\ components = [c \in CCIds |-> EmptyCC]
  /\ initNode_ = NoNode
  /\ goalNodes_ = <<>>
  /\ kdTree_ = {}
  /\ last = [op |-> "create", ret |-> 0, minDistance |-> 0, exists |-> FALSE,
             aborted |-> FALSE]
  /\ kinodynamic = Constructed(KinodynamicBounds)
  /\ planner \in SolvePlanners

Solve ==
  \E envs \in [1..getNbHppProblems(planner) -> SolveEnvs] :
    /\ PathsWithin(solve(planner, envs))
    /\ planner' = solve(planner, envs)
    /\ unchangedCore

\* Problems are solved again and again, one at a time or all together.
NextSolve ==
  \/ SolveOneProblem
  \/ Solve

SpecSolve == InitSolve /\ [][NextSolve]_vars

\* ------------------------------------------------------------------- claims
cc(n) == nodes_[n].connectedComponent

\* Nodes reachable from the nodes of S along the directed edges.
RECURSIVE EdgeReach(_)
EdgeReach(S) ==
  LET T == S \cup {edges_[i].to : i \in {j \in DOMAIN edges_ : edges_[j].from \in S}}
  IN IF T = S THEN S ELSE EdgeReach(T)

\* Components reachable from the components of S along reachable_to links.
RECURSIVE LinkReach(_)
LinkReach(S) ==
  LET T == S \cup UNION {components[c].reachableTo_ : c \in S}
  IN IF T = S THEN S ELSE LinkReach(T)

\* The edges as (from, to) pairs, in insertion order.
EdgePairs == [i \in DOMAIN edges_ |-> <<edges_[i].from, edges_[i].to>>]

\* Some components have been merged away.
Merged ==
  Cardinality(connectedComponents_)
    < Cardinality({n \in NodeIds : nodes_[n].newComponent})

\* C1: every node of the node list is in the node set of exactly one
\* component of the roadmap, which is the component its back-pointer names.
C1_NodeInOneComponent ==
  \A n \in NodeIds :
    /\ cc(n) \in connectedComponents_
    /\ \A c \in connectedComponents_ : n \in components[c].nodes <=> c = cc(n)

\* A merge has re-pointed nodes, one of them inserted by add_node_in.
C1_Witness ==
  /\ last.op = "add_edge"
  /\ Merged
  /\ \E n \in NodeIds : ~nodes_[n].newComponent

\* C2: reachable_to and reachable_from are transitively closed as sets; after
\* add_edge (A,B), add_edge (C,D), add_edge (B,C) the component of A holds
\* those of B, C and D in reachable_to.
C2_TransitivelyClosed ==
  /\ \A c1, c2, c3 \in connectedComponents_ :
       /\ (c2 \in components[c1].reachableTo_ /\ c3 \in components[c2].reachableTo_)
            => c3 \in components[c1].reachableTo_
       /\ (c2 \in components[c1].reachableFrom_ /\ c3 \in components[c2].reachableFrom_)
            => c3 \in components[c1].reachableFrom_
  /\ EdgePairs = <<(<<1, 2>>), (<<3, 4>>), (<<2, 3>>)>>
       => {cc(2), cc(3), cc(4)} \subseteq components[cc(1)].reachableTo_

\* C3: c2 is in reachable_to of c1 exactly when c1 is in reachable_from of c2.
C3_ToFromSymmetric ==
  \A c1, c2 \in connectedComponents_ :
    c2 \in components[c1].reachableTo_ <=> c1 \in components[c2].reachableFrom_

\* A->B, B->C, A->C and then C->A: the last connect merges the components of
\* A and B into that of C at once.
C3_Witness ==
  /\ last.op = "add_edge"
  /\ EdgePairs = <<(<<1, 2>>), (<<2, 3>>), (<<1, 3>>), (<<3, 1>>)>>
  /\ connectedComponents_ = {3, 4}
  /\ components[3].nodes = {1, 2, 3}

\* C4: when add_edge (n1, n2) finds that cc2 can reach cc1, every component on
\* a directed component path from cc2 to cc1 is removed from the roadmap, its
\* nodes belong to cc1, and cc1 survives.
C4_CycleCollapses ==
  [][\A n1 \in NodeIds, n2 \in NodeIds, path \in Paths :
       (/\ last'.op = "add_edge"
        /\ AddEdgeCall(n1, n2, path)
        /\ cc(n1) # cc(n2)
        /\ canReach(Roadmap, cc(n2), cc(n1)))
       => LET cc1 == cc(n1)
              onPath == {c \in connectedComponents_ :
                           /\ c \in LinkReach({cc(n2)})
                           /\ cc1 \in LinkReach({c})}
          IN /\ cc1 \in connectedComponents_'
             /\ \A c \in onPath \ {cc1} :
                  /\ c \notin connectedComponents_'
                  /\ \A n \in components[c].nodes :
                       nodes_'[n].connectedComponent = cc1]_vars

\* C5: two nodes have the same component exactly when each is reachable from
\* the other along the directed edges.
C5_ComponentsAreSCCs ==
  \A a \in NodeIds, b \in NodeIds :
    cc(a) = cc(b) <=> (b \in EdgeReach({a}) /\ a \in EdgeReach({b}))

\* C6: after add_edges (a, b, p), with a the init node and b a goal node,
\* path_exists returns true.
C6_PathAfterAddEdges ==
  last.op = "path_exists" =>
    \A i \in DOMAIN edges_ :
      (/\ i + 1 \in DOMAIN edges_
       /\ edges_[i + 1] = [from |-> edges_[i].to, to |-> edges_[i].from,
                           path |-> Reverse(edges_[i].path)]
       /\ edges_[i].path \in Paths
       /\ edges_[i].from = initNode_
       /\ \E g \in DOMAIN goalNodes_ : goalNodes_[g] = edges_[i].to)
      => last.exists = TRUE

\* C7: add_edges (from, to, path) leaves the roadmap as add_edge (from, to,
\* path) followed by add_edge (to, from, path.reverse ()) does.
C7_AddEdgesIsTwoAddEdge ==
  [][\A from \in NodeIds, to \in NodeIds, path \in Paths :
       (last'.op = "add_edges" /\ AddEdgesCall(from, to, path))
       => \E o1 \in MergeOrders(Roadmap, cc(from), cc(to)) :
            LET r1 == addEdge(Roadmap, from, to, path, o1)
            IN \E o2 \in MergeOrders(r1, r1.nodes_[to].connectedComponent,
                                     r1.nodes_[from].connectedComponent) :
                 Roadmap' = addEdge(r1, to, from, Reverse(path), o2)]_vars

\* C8: path_exists returns true exactly when some goal node's component is
\* the init node's component or is in its reachable_to; after add_edge (A,B),
\* add_edge (C,D), add_edge (B,C) it is true for init A, goal D and false for
\* init D, goal A.
C8_PathExistsFollowsEdges ==
  last.op = "path_exists" =>
    /\ last.exists =
         (\E g \in DOMAIN goalNodes_ :
            \/ cc(goalNodes_[g]) = cc(initNode_)
            \/ cc(goalNodes_[g]) \in components[cc(initNode_)].reachableTo_)
    /\ EdgePairs = <<(<<1, 2>>), (<<3, 4>>), (<<2, 3>>)>> =>
         /\ (initNode_ = 1 /\ goalNodes_ = <<4>>) => last.exists = TRUE
         /\ (initNode_ = 4 /\ goalNodes_ = <<1>>) => last.exists = FALSE

\* The least distance from q to a node of S.
MinDistance(S, q) == Min({Distance(nodes_[n].configuration, q) : n \in S})

\* The roadmap's lists and sets are as before the step.
SameRoadmap == Roadmap' = Roadmap

C11_AddNodeInFrame ==
  [][\A q \in Configs, c \in connectedComponents_ :
       (last'.op = "add_node_in" /\ AddNodeInCall(q, c)) =>
         /\ connectedComponents_' = connectedComponents_
         /\ \A x \in CCIds :
              /\ components'[x].reachableTo_ = components[x].reachableTo_
              /\ components'[x].reachableFrom_ = components[x].reachableFrom_
         /\ IF \E n \in components[c].nodes : nodes_[n].configuration = q
            THEN /\ last'.ret \in components[c].nodes
                 /\ nodes_[last'.ret].configuration = q
                 /\ SameRoadmap
            ELSE /\ last'.ret = Len(nodes_) + 1
                 /\ Len(nodes_') = Len(nodes_) + 1
                 /\ SubSeq(nodes_', 1, Len(nodes_)) = nodes_
                 /\ nodes_'[last'.ret].configuration = q
                 /\ nodes_'[last'.ret].connectedComponent = c
                 /\ components'[c].nodes = components[c].nodes \cup {last'.ret}
                 /\ \A x \in CCIds \ {c} : components'[x] = components[x]
                 /\ edges_' = edges_]_vars

\* add_node_in has appended a node to a component that absorbed another.
C11_Witness ==
  /\ last.op = "add_node_in"
  /\ last.ret = Len(nodes_)
  /\ Merged
  /\ Cardinality(components[cc(last.ret)].nodes) = Len(nodes_)
C13_PreconditionsFailLoudly ==
  [][/\ \A q \in Configs, c \in UntrackedCCs :
          (components[c].nodes = {} /\ last'.op = "nearest_in"
             /\ MisuseNearestInCall(q, c)) => last'.aborted
     /\ \A q \in Configs, c \in UntrackedCCs :
          (last'.op = "add_node_in" /\ MisuseAddNodeInCall(q, c)) => last'.aborted
     /\ (initNode_ = NoNode /\ last'.op = "path_exists" /\ MisusePathExistsCall)
          => last'.aborted]_vars

PeakVelocity(in, out) == Plus(in.v1, Times(out.a1, out.t1))

EndVelocity(in, out) == Plus(PeakVelocity(in, out), Times(out.a2, out.t2))

EndPosition(in, out) ==
  LET half == <<1, 2>>
      ramp1 == Plus(Times(in.v1, out.t1),
                    Times(half, Times(out.a1, Times(out.t1, out.t1))))
      cruise == Times(PeakVelocity(in, out), out.tv)
      ramp2 == Plus(Times(PeakVelocity(in, out), out.t2),
                    Times(half, Times(out.a2, Times(out.t2, out.t2))))
  IN Plus(Plus(in.p1, ramp1), Plus(cruise, ramp2))

\* The velocities given are within the velocity bound.
WithinBounds ==
  /\ LessEq(fabs(kinodynamic.in.v1), kinodynamic.vMax_)
  /\ LessEq(fabs(kinodynamic.in.v2), kinodynamic.vMax_)

NonNegative(x) == LessEq(Num(0), x)

\* C15: for velocities within the bound and either sign of sigma, the
\* schedule of min_time has a peak velocity v1 + a1 * t1 of magnitude at most
\* v_max (so a schedule without cruise is accepted only then) and
\* accelerations of magnitude a_max.
C15_VelocityWithinBound ==
  (kinodynamic.op = "min_time" /\ WithinBounds) =>
    /\ LessEq(fabs(PeakVelocity(kinodynamic.in, kinodynamic.out)),
              kinodynamic.vMax_)
    /\ fabs(kinodynamic.out.a1) = kinodynamic.aMax_
    /\ fabs(kinodynamic.out.a2) = kinodynamic.aMax_

\* C16: for inputs within the bounds the schedule of min_time has t1, tv and
\* t2 non-negative, T = t1 + tv + t2, and the motion it describes from
\* (p1, v1) ends at position p2 with velocity v2.
C16_BoundaryConditions ==
  (kinodynamic.op = "min_time" /\ WithinBounds) =>
    /\ NonNegative(kinodynamic.out.t1)
    /\ NonNegative(kinodynamic.out.tv)
    /\ NonNegative(kinodynamic.out.t2)
    /\ kinodynamic.out.T = Plus(Plus(kinodynamic.out.t1, kinodynamic.out.tv),
                                kinodynamic.out.t2)
    /\ EndPosition(kinodynamic.in, kinodynamic.out) = kinodynamic.in.p2
    /\ EndVelocity(kinodynamic.in, kinodynamic.out) = kinodynamic.in.v2

\* The duration given to fixed_time is not shorter than the min_time of the
\* axis, whatever sgn gives at zero.
NotShorterThanMinTime ==
  \A atZero \in SgnAtZero :
    LET least == computeMinTime(Bounds, kinodynamic.in.p1, kinodynamic.in.p2,
                                kinodynamic.in.v1, kinodynamic.in.v2, atZero)
    IN SqrtExact(least.delta) /\ LessEq(least.T, kinodynamic.in.T)

\* C17: for every input, with v1 and v2 zero or not, and every duration T
\* not shorter than the min_time of the axis, fixed_time gives a2 = -a1 and
\* non-negative t1, tv, t2 of sum T, and the motion they describe from
\* (p1, v1) ends at position p2 with velocity v2.
C17_FixedTimeMeetsDuration ==
  (kinodynamic.op = "fixed_time" /\ NotShorterThanMinTime) =>
    /\ kinodynamic.out.a2 = Neg(kinodynamic.out.a1)
    /\ NonNegative(kinodynamic.out.t1)
    /\ NonNegative(kinodynamic.out.tv)
    /\ NonNegative(kinodynamic.out.t2)
    /\ Plus(Plus(kinodynamic.out.t1, kinodynamic.out.tv), kinodynamic.out.t2)
         = kinodynamic.in.T
    /\ EndPosition(kinodynamic.in, kinodynamic.out) = kinodynamic.in.p2
    /\ EndVelocity(kinodynamic.in, kinodynamic.out) = kinodynamic.in.v2

\* The bounds and the arguments of scenario S6 (cruise) and S5 (bang-bang).
GivenS6 ==
  /\ kinodynamic.aMax_ = Num(1) /\ kinodynamic.vMax_ = Num(1)
  /\ kinodynamic.in.p1 = Num(0) /\ kinodynamic.in.p2 = Num(100)
  /\ kinodynamic.in.v1 = Num(0) /\ kinodynamic.in.v2 = Num(0)

GivenS5 ==
  /\ kinodynamic.aMax_ = Num(1) /\ kinodynamic.vMax_ = Num(10)
  /\ kinodynamic.in.p1 = Num(0) /\ kinodynamic.in.p2 = Num(1)
  /\ kinodynamic.in.v1 = Num(0) /\ kinodynamic.in.v2 = Num(0)

C20_NegativeDiscriminantReported ==
  (kinodynamic.op \in {"min_time", "fixed_time"}
     /\ Less(kinodynamic.out.delta, Num(0))) =>
    \/ kinodynamic.out.error
    \/ /\ IsNaN(kinodynamic.out.t1)
       /\ IsNaN(kinodynamic.out.tv)
       /\ IsNaN(kinodynamic.out.t2)

\* The robot has fewer than 2 * E extra degrees of freedom, E being the
\* number of its coordinates that are not extra.
FewerThanTwicePerAxis(device) ==
  device.extraDim < 2 * (device.configSize - device.extraDim)

\* C21: no steering method is constructed for a robot with fewer than 2 * E
\* extra degrees of freedom: none exists, and none answers a call.
C21_ConstructionRejected ==
  FewerThanTwicePerAxis(kinodynamic.device) => kinodynamic.op = "none"

\* C22: whatever the calls made, self-loops, edges inside one component and
\* merges included, no component of the roadmap is in its own reachable_to
\* or reachable_from set.
C22_NoSelfReachability ==
  \A c \in connectedComponents_ :
    /\ c \notin components[c].reachableTo_
    /\ c \notin components[c].reachableFrom_

\* A self-loop and an edge inside a merged component have been added, and
\* some component still has links.
C22_Witness ==
  /\ \E i \in DOMAIN edges_ : edges_[i].from = edges_[i].to
  /\ \E i \in DOMAIN edges_ :
       /\ edges_[i].from # edges_[i].to
       /\ cc(edges_[i].from) = cc(edges_[i].to)
  /\ Merged
  /\ \E c \in connectedComponents_ : components[c].reachableTo_ # {}

\* C23: every component in the reachable_to or reachable_from set of a
\* component of the roadmap is itself a component of the roadmap: a merge
\* leaves no reference to a component it removed.
C23_NoDanglingComponent ==
  \A c \in connectedComponents_ :
    components[c].reachableTo_ \cup components[c].reachableFrom_
      \subseteq connectedComponents_

\* The first edge linked the component of its source to a component that
\* was merged away afterwards: the link now names the component that
\* absorbed it.
C23_Witness ==
  /\ Len(edges_) >= 1
  /\ LET c == cc(edges_[1].from)
         d == cc(edges_[1].to)
     IN /\ c = edges_[1].from
        /\ d # edges_[1].to
        /\ c # d
        /\ edges_[1].to \notin connectedComponents_
        /\ d \in components[c].reachableTo_
        /\ c \in components[d].reachableFrom_

\* C24: in a run made of calls within their preconditions, the assertion of
\* Roadmap::merge never fails: whichever add_edge call comes next, every
\* component it merges is erased from the set of components, where it is.
C24_MergeAssertionHolds ==
  \A n1 \in NodeIds, n2 \in NodeIds :
    \A ccs \in MergeOrders(Roadmap, cc(n1), cc(n2)) :
      ~addEdgeAsserts(Roadmap, n1, n2, ccs)

\* The fourth edge closed a cycle through three components, no merge having
\* been made before: one call of Roadmap::merge erased two components.
C24_Witness ==
  /\ \E a \in NodeIds, b \in NodeIds, c \in NodeIds :
       /\ Cardinality({a, b, c}) = 3
       /\ EdgePairs = << <<a, b>>, <<b, c>>, <<a, c>>, <<c, a>> >>
  /\ Cardinality(connectedComponents_) + 2
       = Cardinality({n \in NodeIds : nodes_[n].newComponent})

\* C25: whatever calls of add_node, add_node_in, add_node_and_edges and
\* add_goal have been made, no two distinct nodes of the roadmap have equal
\* configurations.
C25_NoEqualConfigurations ==
  \A n \in NodeIds, m \in NodeIds :
    n # m => nodes_[n].configuration # nodes_[m].configuration

\* C26: whatever problems and obstacles have been added and removed, the
\* obstacle list of every problem of the vector equals the obstacle list of
\* the planner.
C26_ObstacleListsAgree ==
  \A i \in DOMAIN planner.hppProblemVector :
    planner.hppProblemVector[i].obstacleList = planner.mObstacleList

\* The operations that take a rank and return a status, a pointer, a number.
RankStatusOps ==
  {"robotCurrentConfIthProblemSet", "initConfIthProblemSet",
   "goalConfIthProblemSet", "roadmapBuilderIthProblemSet",
   "pathOptimizerIthProblemSet", "steeringMethodIthProblemSet",
   "solveOneProblem", "optimizePath", "addPath"}

RankPointerOps ==
  {"robotIthProblem", "robotCurrentConfIthProblem", "initConfIthProblem",
   "goalConfIthProblem", "roadmapBuilderIthProblem", "pathOptimizerIthProblem",
   "steeringMethodIthProblem", "getPath"}

\* The planner apart from the record of the last call.
PlannerState(p) == [p EXCEPT !.call = NoCall]

\* The step is a call with a rank that is not the rank of a problem.
BadRankCall ==
  /\ planner'.call.op \in RankStatusOps \cup RankPointerOps \cup {"getNbPaths"}
  /\ planner'.call.rank >= getNbHppProblems(planner)

\* The step is a removal from the empty vector.
EmptyRemoval ==
  /\ planner'.call.op \in {"removeHppProblem", "removeHppProblemAtBeginning"}
  /\ getNbHppProblems(planner) = 0

\* C27: a call with a rank that is not below the number of problems returns
\* its failure value (KD_ERROR, a null pointer, or 0), sends no
\* notification and changes neither the problems nor the obstacle list; a
\* removal from the empty vector returns KD_ERROR and changes nothing.
C27_BadRankChangesNothing ==
  [][/\ BadRankCall =>
         /\ PlannerState(planner') = PlannerState(planner)
         /\ planner'.call.notified = <<>>
         /\ planner'.call.op \in RankStatusOps => planner'.call.ret = KD_ERROR
         /\ planner'.call.op \in RankPointerOps => planner'.call.ret = NullPtr
         /\ planner'.call.op = "getNbPaths" => planner'.call.ret = 0
     /\ EmptyRemoval =>
         /\ PlannerState(planner') = PlannerState(planner)
         /\ planner'.call.ret = KD_ERROR]_vars

\* addPath was called with the number of problems as rank on a planner
\* that has a problem and an obstacle.
C27_Witness ==
  /\ planner.call.op = "addPath"
  /\ planner.call.rank = getNbHppProblems(planner)
  /\ planner.call.ret = KD_ERROR
  /\ getNbHppProblems(planner) >= 1
  /\ planner.mObstacleList # <<>>

\* Problem i of the vector keeps its paths in the step and gets k more.
PathsAdded(i, k) ==
  LET before == planner.hppProblemVector[i].paths
      after == planner'.hppProblemVector[i].paths
  IN /\ Len(after) = Len(before) + k
     /\ SubSeq(after, 1, Len(before)) = before

\* Problem id has all that solveOneProblem asks for, and the libraries
\* answering env give a path: a valid direct path, or a roadmap builder that
\* solves the problem.
Solvable(id, env) ==
  /\ id < getNbHppProblems(planner)
  /\ LET hppProblem == planner.hppProblemVector[id + 1]
     IN /\ hppProblem.robot # NullPtr
        /\ hppProblem.initConfig # NullPtr
        /\ hppProblem.goalConfig # NullPtr
        /\ hppProblem.roadmapBuilder # NullPtr
        /\ planner.steeringMethod # NullPtr
        /\ env.directPath = "valid" \/ env.solveProblem = KD_OK

\* The paths solveOneProblem (id) is to add when the libraries answer env.
PathsDue(id, env) ==
  IF ~Solvable(id, env) THEN 0
  ELSE IF env.directPath = "valid" THEN 1 ELSE 2

\* C28: solveOneProblem returns KD_OK exactly when the problem is defined
\* and a path is found; it adds no path when it returns KD_ERROR, one path
\* when the direct path is valid, two paths when the roadmap builder solves
\* the problem, with or without a path optimizer, and it adds no path to
\* another problem. solve runs every problem, whatever the earlier ones
\* returned, and returns KD_OK exactly when all of them returned KD_OK.
C28_PathsOnlyOnSuccess ==
  [][/\ planner'.call.op = "solveOneProblem" =>
         LET id == planner'.call.rank
             env == planner'.call.envs[1]
         IN /\ planner'.call.ret = KD_OK <=> Solvable(id, env)
            /\ \A i \in DOMAIN planner.hppProblemVector :
                 PathsAdded(i, IF i = id + 1 THEN PathsDue(id, env) ELSE 0)
            /\ Len(planner'.hppProblemVector) = Len(planner.hppProblemVector)
     /\ planner'.call.op = "solve" =>
         LET envs == planner'.call.envs
         IN /\ Len(planner'.hppProblemVector) = Len(planner.hppProblemVector)
            /\ Len(planner'.call.rets) = Len(planner.hppProblemVector)
            /\ \A i \in DOMAIN planner.hppProblemVector :
                 /\ PathsAdded(i, PathsDue(i - 1, envs[i]))
                 /\ planner'.call.rets[i] = KD_OK <=> Solvable(i - 1, envs[i])
            /\ planner'.call.ret = KD_OK <=>
                 \A i \in DOMAIN planner.hppProblemVector :
                   Solvable(i - 1, envs[i])]_vars

\* solve has run on two problems: the first failed, the second was solved
\* by its roadmap builder without a path optimizer and holds two paths.
C28_Witness ==
  /\ planner.call.op = "solve"
  /\ planner.call.rets = <<KD_ERROR, KD_OK>>
  /\ planner.call.ret = KD_ERROR
  /\ planner.hppProblemVector[1].paths = <<>>
  /\ planner.hppProblemVector[2].pathOptimizer = NullPtr
  /\ planner.hppProblemVector[2].paths = <<"builder", "builder">>

\* The step is a solveOneProblem that found the direct path valid; when
\* distinct is TRUE, only for a goal configuration other than the init one.
\* The call appends one path; on the empty roadmap it leaves a node for the
\* init configuration, a node for the goal configuration and an edge from
\* the first to the second; after an earlier call that found the direct
\* path valid it leaves the roadmap as it is.
DirectSolveStep(distinct) ==
  (/\ planner'.call.op = "solveOneProblem"
   /\ planner'.call.ret = KD_OK
   /\ planner'.call.envs[1].directPath = "valid"
   /\ distinct =>
        planner.hppProblemVector[planner'.call.rank + 1].initConfig
          # planner.hppProblemVector[planner'.call.rank + 1].goalConfig)
  => LET before == planner.hppProblemVector[planner'.call.rank + 1]
         after == planner'.hppProblemVector[planner'.call.rank + 1]
     IN /\ after.paths = Append(before.paths, "direct")
        /\ before.roadmap = EmptyKwsRoadmap =>
             /\ after.roadmap.nodes = <<before.initConfig, before.goalConfig>>
             /\ after.roadmap.edges = {<<1, 2>>}
        /\ (\E j \in DOMAIN before.paths : before.paths[j] = "direct") =>
             after.roadmap = before.roadmap

DistinctConfigsIdempotent == [][DirectSolveStep(TRUE)]_vars

\* A third solveOneProblem has found the direct path valid between distinct
\* configurations: three paths, two nodes, one edge.
ThirdDirectSolve ==
  /\ planner.call.op = "solveOneProblem"
  /\ planner.call.rank = 0
  /\ planner.hppProblemVector[1].paths = <<"direct", "direct", "direct">>
  /\ planner.hppProblemVector[1].roadmap = [nodes |-> <<1, 2>>, edges |-> {<<1, 2>>}]
====
